---------------------------- MODULE Spec2Model ----------------------------
(***************************************************************************)
(* A model of the raad download engine (genyleap/raad).                    *)
(*                                                                         *)
(* Part I  models DownloadManager (src/core/downloadmanager.cpp): queues,  *)
(* admission, policy enforcement, retry / mirror failover, bulk cancel.    *)
(* In Part I a task is its life cycle (DownloaderTask's m_state,           *)
(* m_anyError, m_pauseReason, mirror list); its network exchange is the    *)
(* environment, which reports progress and completion.                     *)
(*                                                                         *)
(* All handlers run on one event loop, so every action is one whole        *)
(* handler, the handlers it calls and the slots its signals reach          *)
(* included.  Handlers are operators from a state record to a state        *)
(* record; an action applies one to the current state.                     *)
(***************************************************************************)
EXTENDS Integers, Sequences, FiniteSets, TLC

VARIABLES
    tasks,      \* [TaskIds -> task record]: the DownloaderTask objects
    mgr,        \* the DownloadManager's fields
    queues,     \* m_queues: queue name -> QueueInfo
    clock,      \* [now, today]: minute of day and date read by the handlers
    timers,     \* pending QTimer::singleShot retry timers, per task
    trace,      \* the signals emitted by the last handler, in order
    dt,         \* Part II: the fields of the one DownloaderTask seen in detail
    disk,       \* Part II: that task's files, path -> [exists, size]
    remote,     \* Part II: the size of the file the server holds
    commands,   \* Part II: the calls the owner has made on the task
    stale,      \* Part II: the timers that were pending when pause() or
                \* cancel() last took effect and have not fired since
    wall        \* Part II: [now, started, log]: the time in ms, the time
                \* m_throttleTimer was last (re)started and the writes of
                \* the last second as <<time, bytes>>

vars == <<tasks, mgr, queues, clock, timers, trace, dt, disk, remote, commands, stale, wall>>

\* No time has passed and nothing has been written.
WallIdle == [now |-> 0, started |-> 0, log |-> << >>]

(*************************** bounds of the model ***************************)
MaxTasks == 2
MaxConcurrent == 2
MaxBytes == 2
MaxDay == 1
MaxTimers == 1

TaskIds == 1..MaxTasks
General == "General"
QueueNames == {General, "Q2"}
Minutes == {0, 1}
Days == 0..MaxDay
RetryMaxValues == {-1, 1}
AutoRetryMaxValues == {0, 1}
QuotaValues == {0, 1}
\* The delayed retries followed for one task.
MaxRetries == 2
MirrorChoices == {<< >>, <<TRUE, TRUE>>, <<TRUE, FALSE>>}

(***************************** small helpers ******************************)
Value(map, k, d) == IF k \in DOMAIN map THEN map[k] ELSE d

Put(map, k, v) == [x \in (DOMAIN map) \cup {k} |-> IF x = k THEN v ELSE map[x]]

Min(a, b) == IF a < b THEN a ELSE b

EmptyMap == [x \in {} |-> 0]

Emit(s, e) == [s EXCEPT !.trace = Append(@, e)]

SigFinished(s, t, success) ==
    [ev |-> "finished", task |-> t,
     info |-> IF success THEN "true" ELSE "false",
     state |-> s.tasks[t].state,
     bulk |-> s.mgr.m_bulkCancelInProgress]

\* emit powerStateChanged() of the manager
SigPowerStateChanged(s) ==
    [ev |-> "powerStateChanged", task |-> 0, info |-> "", state |-> "",
     bulk |-> s.mgr.m_bulkCancelInProgress]

SigToast(s, t, kind) ==
    [ev |-> "toast", task |-> t, info |-> kind,
     state |-> s.tasks[t].state,
     bulk |-> s.mgr.m_bulkCancelInProgress]

(************************ DownloaderTask life cycle ************************)
\* A task as the manager sees it.  etag stands for m_etag and
\* m_lastModified; retries is history, not a field of the program: the
\* delayed retries the manager has armed for the task object so far.
NoTask ==
    [state |-> "Absent", anyError |-> FALSE, pauseReason |-> "",
     mirrors |-> << >>, mirrorIndex |-> 0, retryMax |-> -1, downloaded |-> 0,
     etag |-> FALSE, retries |-> 0, maxSpeed |-> 0]

\* DownloaderTask::currentUrl().isValid(): the mirror at m_mirrorIndex when
\* the list has one, else m_url (which only ever holds a valid URL).
CurrentUrlValid(tk) ==
    IF Len(tk.mirrors) > 0 /\ tk.mirrorIndex >= 0 /\ tk.mirrorIndex < Len(tk.mirrors)
    THEN tk.mirrors[tk.mirrorIndex + 1]
    ELSE TRUE

isRunning(tk) == tk.state = "Downloading"

isIdle(tk) == tk.state = "Idle"

stateString(tk) ==
    IF tk.anyError /\ tk.state = "Finished" THEN "Error"
    ELSE CASE tk.state = "Idle" -> "Queued"
           [] tk.state = "Downloading" -> "Active"
           [] tk.state = "Paused" -> "Paused"
           [] tk.state = "Finished" -> "Done"
           [] tk.state = "Canceled" -> "Canceled"
           [] OTHER -> "Unknown"

\* DownloaderTask::pause(): only a Downloading task is paused.
TaskPause(s, t) ==
    LET tk == s.tasks[t] IN
    IF tk.state # "Downloading" THEN s
    ELSE [s EXCEPT !.tasks[t].pauseReason = IF @ = "" THEN "User" ELSE @,
                   !.tasks[t].state = "Paused"]

TaskPauseWithReason(s, t, reason) ==
    IF s.tasks[t].state # "Downloading" THEN s
    ELSE TaskPause([s EXCEPT !.tasks[t].pauseReason = reason], t)

\* An advanceMirror that goes back to the first mirror after the last.
advanceMirrorWrap(tk) ==
    IF Len(tk.mirrors) = 0 THEN <<FALSE, tk>>
    ELSE <<TRUE, [tk EXCEPT !.mirrorIndex = (@ + 1) % Len(tk.mirrors),
                            !.etag = FALSE]>>

\* DownloaderTask::advanceMirror(): <<moved, task>>.  etag stands for the
\* resume validators (m_etag, m_lastModified): TRUE when one is set.
advanceMirror(tk) ==
    IF Len(tk.mirrors) = 0 THEN <<FALSE, tk>>
    ELSE IF tk.mirrorIndex + 1 >= Len(tk.mirrors) THEN <<FALSE, tk>>
    ELSE <<TRUE, [tk EXCEPT !.mirrorIndex = @ + 1,
                            !.etag = IF tk.mirrors[tk.mirrorIndex + 2] THEN FALSE
                                     ELSE @]>>

(************************** queues and policies ***************************)
defaultQueueName(s) ==
    IF Len(s.mgr.m_queueOrder) = 0 THEN General ELSE s.mgr.m_queueOrder[1]

\* QString::trimmed() on the queue names of the model.
Trimmed(name) == IF name = " Q2 " THEN "Q2" ELSE name

NewQueueInfo(s, name) ==
    [name |-> name, maxConcurrent |-> s.mgr.m_maxConcurrent,
     scheduleEnabled |-> FALSE, startMinutes |-> 0, endMinutes |-> 0,
     quotaEnabled |-> FALSE, quotaBytes |-> 0, downloadedToday |-> 0,
     lastResetDate |-> s.clock.today, maxSpeed |-> 0]

createQueue(s, name) ==
    LET trimmed == Trimmed(name) IN
    IF trimmed = "" THEN s
    ELSE IF trimmed \in DOMAIN s.queues THEN s
    ELSE [s EXCEPT !.queues = Put(@, trimmed, NewQueueInfo(s, trimmed)),
                   !.mgr.m_queueOrder = Append(@, trimmed)]

isWithinSchedule(info, now) ==
    IF ~info.scheduleEnabled THEN TRUE
    ELSE IF info.startMinutes = info.endMinutes THEN TRUE
    ELSE IF info.startMinutes < info.endMinutes
         THEN now >= info.startMinutes /\ now < info.endMinutes
         ELSE now >= info.startMinutes \/ now < info.endMinutes

QuotaReached(info) ==
    info.quotaEnabled /\ info.quotaBytes > 0 /\ info.downloadedToday >= info.quotaBytes

isQueueAllowed(info, now) ==
    IF info.scheduleEnabled /\ ~isWithinSchedule(info, now) THEN FALSE
    ELSE IF QuotaReached(info) THEN FALSE
    ELSE TRUE

NoQueue == [name |-> "", maxSpeed |-> 0]

TaskQueueOf(s, t) == Value(s.mgr.m_taskQueue, t, defaultQueueName(s))


queueInfo(s, name) == IF name \in DOMAIN s.queues THEN s.queues[name] ELSE NoQueue

\* An applyTaskSpeed that takes 0 for a limit like any other value.
applyTaskSpeedPlainMin(s, t) ==
    LET qname == TaskQueueOf(s, t)
        global == s.mgr.m_globalMaxSpeed
        e1 == IF qname \in DOMAIN s.queues /\ s.queues[qname].maxSpeed < global
              THEN s.queues[qname].maxSpeed ELSE global
        taskLimit == Value(s.mgr.m_taskMaxSpeed, t, 0)
    IN [s EXCEPT !.tasks[t].maxSpeed = IF taskLimit < e1 THEN taskLimit ELSE e1]

\* DownloadManager::applyTaskSpeed: 0 stands for no limit.
applyTaskSpeed(s, t) ==
    LET qname == TaskQueueOf(s, t)
        global == s.mgr.m_globalMaxSpeed
        e1 == IF qname \in DOMAIN s.queues /\ s.queues[qname].maxSpeed > 0
                 /\ (global = 0 \/ s.queues[qname].maxSpeed < global)
              THEN s.queues[qname].maxSpeed ELSE global
        taskLimit == Value(s.mgr.m_taskMaxSpeed, t, 0)
        effective == IF taskLimit > 0 /\ (e1 = 0 \/ taskLimit < e1) THEN taskLimit ELSE e1
    IN [s EXCEPT !.tasks[t].maxSpeed = effective]

(********** start / finished / retry: the mutually recursive core **********)
RECURSIVE TaskStart(_, _)
RECURSIVE EmitFinished(_, _, _)
RECURSIVE onTaskFinishedWrapper(_, _)
RECURSIVE TaskRestart(_, _)
RECURSIVE startQueuedLoop(_, _, _, _)

\* DownloaderTask::cleanup(emitFinished) on the life cycle: replies dropped, part files removed,
\* byte counters back to 0, then finished(false) when asked for.
TaskCleanup(s, t, emitFinished) ==
    LET s1 == [s EXCEPT !.tasks[t].downloaded = 0] IN
    IF emitFinished THEN EmitFinished(s1, t, FALSE) ELSE s1

\* DownloaderTask::start(): an Idle task goes to Downloading, or finishes
\* with an error at once when its current URL is not valid.
TaskStart(s, t) ==
    IF s.tasks[t].state # "Idle" THEN s
    ELSE LET s1 == [s EXCEPT !.tasks[t].pauseReason = ""] IN
         IF ~CurrentUrlValid(s1.tasks[t])
         THEN EmitFinished([s1 EXCEPT !.tasks[t].anyError = TRUE,
                                      !.tasks[t].state = "Finished"], t, FALSE)
         ELSE [s1 EXCEPT !.tasks[t].anyError = FALSE,
                         !.tasks[t].state = "Downloading"]

\* DownloaderTask::resume()
TaskResume(s, t) ==
    IF s.tasks[t].state # "Paused" THEN s
    ELSE TaskStart([s EXCEPT !.tasks[t].pauseReason = "",
                             !.tasks[t].state = "Idle"], t)

\* DownloaderTask::restart()
TaskRestart(s, t) ==
    TaskStart([TaskCleanup(s, t, FALSE) EXCEPT !.tasks[t].state = "Idle"], t)

\* A cancel() without its guard on the terminal states.
TaskCancelUnguarded(s, t) ==
    TaskCleanup([s EXCEPT !.tasks[t].state = "Canceled",
                      !.tasks[t].pauseReason = ""], t, TRUE)

\* DownloaderTask::cancel()
TaskCancel(s, t) ==
    IF s.tasks[t].state \in {"Finished", "Canceled"} THEN s
    ELSE TaskCleanup([s EXCEPT !.tasks[t].state = "Canceled",
                           !.tasks[t].pauseReason = ""], t, TRUE)

\* DownloadModel::onTaskFinished: the row of the sender is marked finished.
ModelOnTaskFinished(s, t) ==
    [s EXCEPT !.mgr.model =
        [i \in 1..Len(@) |-> IF @[i].task = t THEN [@[i] EXCEPT !.finished = TRUE]
                                              ELSE @[i]]]

\* emit finished(success): the slots run in connection order, the model's
\* (connected in DownloadModel::addDownload) before the manager's.
EmitFinished(s, t, success) ==
    onTaskFinishedWrapper(
        ModelOnTaskFinished(Emit(s, SigFinished(s, t, success)), t), t)

\* The running counts DownloadManager::startQueued takes before its loop.
RunningTasks(s) ==
    {i \in 1..Len(s.mgr.m_queue) : isRunning(s.tasks[s.mgr.m_queue[i]])}

RunningPerQueue(s) ==
    [q \in {TaskQueueOf(s, s.mgr.m_queue[i]) : i \in RunningTasks(s)} |->
        Cardinality({i \in RunningTasks(s) : TaskQueueOf(s, s.mgr.m_queue[i]) = q})]

\* The candidate loop of DownloadManager::startQueued, from position i.
startQueuedLoop(s, i, running, rpq) ==
    IF i > Len(s.mgr.m_queue) THEN s
    ELSE IF running >= s.mgr.m_maxConcurrent THEN s
    ELSE LET c == s.mgr.m_queue[i] IN
         IF ~isIdle(s.tasks[c]) THEN startQueuedLoop(s, i + 1, running, rpq)
         ELSE IF s.mgr.m_pauseOnBattery /\ s.mgr.m_onBattery
              THEN startQueuedLoop(s, i + 1, running, rpq)
         ELSE LET qname == TaskQueueOf(s, c)
                  s1 == IF qname \notin DOMAIN s.queues THEN createQueue(s, qname) ELSE s
              IN
              IF qname \notin DOMAIN s1.queues
              THEN startQueuedLoop(s1, i + 1, running, rpq)
              ELSE LET info == s1.queues[qname]
                       queueLimit == IF info.maxConcurrent > 0 THEN info.maxConcurrent
                                     ELSE s1.mgr.m_maxConcurrent
                   IN
                   IF ~isQueueAllowed(info, s1.clock.now)
                   THEN startQueuedLoop(s1, i + 1, running, rpq)
                   ELSE IF Value(rpq, qname, 0) >= queueLimit
                   THEN startQueuedLoop(s1, i + 1, running, rpq)
                   ELSE startQueuedLoop(TaskStart(applyTaskSpeed(s1, c), c), i + 1, running + 1,
                                        Put(rpq, qname, Value(rpq, qname, 0) + 1))

\* A pass that never looks at the first task of the list.
startQueuedSkipFirst(s) ==
    startQueuedLoop(s, 2, Cardinality(RunningTasks(s)), RunningPerQueue(s))

startQueued(s) ==
    startQueuedLoop(s, 1, Cardinality(RunningTasks(s)), RunningPerQueue(s))

\* The effective retry limit of DownloadManager::onTaskFinishedWrapper.
MaxRetriesOf(s, t) ==
    IF s.tasks[t].retryMax >= 0 THEN s.tasks[t].retryMax ELSE s.mgr.m_autoRetryMax

\* A handler without the bulk-cancel guard.
BulkCancelGuardOff(s) == FALSE

\* The guard that opens DownloadManager::onTaskFinishedWrapper.
BulkCancelGuard(s) == s.mgr.m_bulkCancelInProgress

onTaskFinishedWrapper(s, t) ==
    IF BulkCancelGuard(s) THEN s
    ELSE
    LET state == stateString(s.tasks[t])
        s1 == [s EXCEPT !.mgr.m_taskCompletedAt = Put(@, t, 1)]
        s2 == CASE state = "Done" -> Emit(s1, SigToast(s1, t, "finished"))
                [] state = "Error" -> Emit(s1, SigToast(s1, t, "failed"))
                [] state = "Canceled" -> Emit(s1, SigToast(s1, t, "canceled"))
                [] OTHER -> s1
        s3 == IF state # "Error" THEN s2
              ELSE LET am == advanceMirror(s2.tasks[t]) IN
                   IF am[1]
                   THEN startQueued(TaskRestart(
                            Emit([s2 EXCEPT !.tasks[t] = am[2]],
                                 SigToast(s2, t, "mirror")), t))
                   ELSE LET attempts == Value(s2.mgr.m_taskRetryCount, t, 0) IN
                        IF attempts < MaxRetriesOf(s2, t)
                        THEN Emit([s2 EXCEPT
                                     !.mgr.m_taskRetryCount = Put(@, t, attempts + 1),
                                     !.tasks[t].retries = @ + 1,
                                     !.timers[t] = @ + 1],
                                  SigToast(s2, t, "retrying"))
                        ELSE s2
    IN startQueued(s3)


(*************************** policy enforcement ****************************)
RECURSIVE enforceTasks(_, _, _, _, _)
RECURSIVE enforceQueues(_, _, _)

\* The body of the task loop of DownloadManager::enforceQueuePolicies for one
\* task of the queue qname.
enforceTask(s, t, qname, allowed, blockByBattery) ==
    LET info == s.queues[qname]
        outside == info.scheduleEnabled /\ ~isWithinSchedule(info, s.clock.now)
        s1 == IF ~isRunning(s.tasks[t]) THEN s
              ELSE IF blockByBattery
              THEN [TaskPauseWithReason(s, t, "Battery") EXCEPT
                        !.mgr.m_taskPausedByBattery = Put(@, t, TRUE)]
              ELSE IF ~allowed
              THEN LET p == IF outside THEN TaskPauseWithReason(s, t, "Schedule")
                            ELSE IF QuotaReached(info)
                                 THEN TaskPauseWithReason(s, t, "Quota")
                                 ELSE TaskPause(s, t)
                       p1 == IF outside
                             THEN [p EXCEPT !.mgr.m_taskPausedBySchedule = Put(@, t, TRUE)]
                             ELSE p
                   IN IF QuotaReached(info)
                      THEN [p1 EXCEPT !.mgr.m_taskPausedByQuota = Put(@, t, TRUE)]
                      ELSE p1
              ELSE s
        pausedBySchedule == Value(s1.mgr.m_taskPausedBySchedule, t, FALSE)
        pausedByQuota == Value(s1.mgr.m_taskPausedByQuota, t, FALSE)
        pausedByBattery == Value(s1.mgr.m_taskPausedByBattery, t, FALSE)
        canResume == allowed /\ ~blockByBattery
                     /\ (s1.mgr.m_resumeOnAC \/ ~pausedByBattery)
    IN
    IF stateString(s1.tasks[t]) = "Paused"
       /\ canResume /\ (pausedBySchedule \/ pausedByQuota \/ pausedByBattery)
    THEN TaskResume([s1 EXCEPT
                        !.mgr.m_taskPausedBySchedule = Put(@, t, FALSE),
                        !.mgr.m_taskPausedByQuota = Put(@, t, FALSE),
                        !.mgr.m_taskPausedByBattery = Put(@, t, FALSE)], t)
    ELSE s1

enforceTasks(s, qname, allowed, blockByBattery, i) ==
    IF i > Len(s.mgr.m_queue) \/ qname \notin DOMAIN s.queues THEN s
    ELSE LET t == s.mgr.m_queue[i] IN
         IF TaskQueueOf(s, t) # s.queues[qname].name
         THEN enforceTasks(s, qname, allowed, blockByBattery, i + 1)
         ELSE enforceTasks(enforceTask(s, t, qname, allowed, blockByBattery),
                           qname, allowed, blockByBattery, i + 1)

\* The queue loop: the day's reset, then the queue's tasks.
enforceQueues(s, names, blockByBattery) ==
    IF names = << >> THEN s
    ELSE LET qname == Head(names) IN
         IF qname \notin DOMAIN s.queues
         THEN enforceQueues(s, Tail(names), blockByBattery)
         ELSE LET s1 == IF s.queues[qname].lastResetDate # s.clock.today
                        THEN [s EXCEPT !.queues[qname].lastResetDate = s.clock.today,
                                       !.queues[qname].downloadedToday = 0]
                        ELSE s
                  allowed == isQueueAllowed(s1.queues[qname], s1.clock.now)
              IN enforceQueues(enforceTasks(s1, qname, allowed, blockByBattery, 1),
                               Tail(names), blockByBattery)

\* DownloadManager::enforceQueuePolicies.  m_queues is a hash; the model
\* visits it in the order of m_queueOrder, which holds the same names.
enforceQueuePolicies(s) ==
    enforceQueues(s, s.mgr.m_queueOrder, s.mgr.m_pauseOnBattery /\ s.mgr.m_onBattery)

schedulerTick(s) == startQueued(enforceQueuePolicies(s))

\* DownloadManager::onTaskProgress
onTaskProgress(s, t, bytesReceived) ==
    LET previous == Value(s.mgr.m_taskLastReceived, t, 0)
        delta == IF bytesReceived - previous < 0 THEN 0 ELSE bytesReceived - previous
        s1 == [s EXCEPT !.mgr.m_taskLastReceived = Put(@, t, bytesReceived)]
        queueName == TaskQueueOf(s1, t)
    IN
    IF queueName \notin DOMAIN s1.queues THEN s1
    ELSE LET s2 == [s1 EXCEPT !.queues[queueName].downloadedToday = @ + delta] IN
         IF QuotaReached(s2.queues[queueName]) THEN enforceQueuePolicies(s2) ELSE s2


(************************* the manager's operations ************************)
RECURSIVE resumeEach(_, _)
RECURSIVE pauseEach(_, _)
RECURSIVE cancelEach(_, _)
RECURSIVE restartErrors(_, _)
RECURSIVE reassignEach(_, _, _, _)
RECURSIVE applyEach(_, _)
RECURSIVE applyQueue(_, _, _)

\* DownloaderTask::markPaused()
TaskMarkPaused(s, t) ==
    LET st == s.tasks[t].state IN
    IF st = "Paused" THEN s
    ELSE IF st = "Downloading" THEN TaskPause(s, t)
    ELSE IF st \in {"Finished", "Canceled"} THEN s
    ELSE [s EXCEPT !.tasks[t].state = "Paused",
                   !.tasks[t].pauseReason = IF @ = "" THEN "User" ELSE @]

\* DownloadManager::createTask with the mirrors and the retry override that
\* applyTaskOptions sets.
createTask(s, t, queueName, mirrors, retryMax) ==
    LET s1 == [s EXCEPT
        !.tasks[t] = [state |-> "Idle", anyError |-> FALSE, pauseReason |-> "",
                      mirrors |-> mirrors, mirrorIndex |-> 0,
                      retryMax |-> retryMax, downloaded |-> 0, etag |-> FALSE,
                      retries |-> 0, maxSpeed |-> 0],
        !.mgr.m_taskQueue = Put(@, t, queueName),
        !.mgr.m_taskLastReceived = Put(@, t, 0),
        !.mgr.m_taskMaxSpeed = Put(@, t, 0),
        !.mgr.m_taskCompletedAt = Put(@, t, 0),
        !.mgr.m_taskRetryCount = Put(@, t, 0)]
    IN [applyTaskSpeed(s1, t) EXCEPT
        !.mgr.model = Append(@, [task |-> t, finished |-> FALSE]),
        !.mgr.m_queue = Append(@, t)]

\* DownloadManager::addDownloadInternal
addDownloadInternal(s, t, queueName, mirrors, retryMax, startPaused) ==
    LET resolvedQueue == IF queueName = "" THEN defaultQueueName(s) ELSE queueName
        s1 == IF resolvedQueue \notin DOMAIN s.queues THEN createQueue(s, resolvedQueue)
              ELSE s
        s2 == createTask(s1, t, resolvedQueue, mirrors, retryMax)
        s3 == IF startPaused THEN TaskMarkPaused(s2, t) ELSE s2
    IN startQueued(s3)

pauseTask(s, t) == TaskPause(s, t)

resumeTask(s, t) == startQueued(TaskResume(s, t))

togglePause(s, t) ==
    LET state == stateString(s.tasks[t]) IN
    IF state = "Active" THEN TaskPause(s, t)
    ELSE IF state = "Paused" THEN startQueued(TaskResume(s, t))
    ELSE s

pauseEach(s, i) ==
    IF i > Len(s.mgr.m_queue) THEN s
    ELSE LET t == s.mgr.m_queue[i] IN
         pauseEach(IF isRunning(s.tasks[t]) THEN TaskPause(s, t) ELSE s, i + 1)

pauseAll(s) == pauseEach(s, 1)

resumeEach(s, i) ==
    IF i > Len(s.mgr.m_queue) THEN s
    ELSE LET t == s.mgr.m_queue[i] IN
         resumeEach(IF stateString(s.tasks[t]) = "Paused" THEN TaskResume(s, t) ELSE s,
                    i + 1)

resumeAll(s) == startQueued(resumeEach(s, 1))

\* The loop of cancelAll over its copy of m_queue.
cancelEach(s, ts) ==
    IF ts = << >> THEN s ELSE cancelEach(TaskCancel(s, Head(ts)), Tail(ts))

\* DownloadManager::cancelAll.  m_taskPausedByBattery is the one per-task map
\* the code does not clear.
cancelAll(s) ==
    LET tasksCopy == s.mgr.m_queue
        s1 == cancelEach([s EXCEPT !.mgr.m_bulkCancelInProgress = TRUE], tasksCopy)
    IN [s1 EXCEPT !.mgr.m_bulkCancelInProgress = FALSE,
                  !.mgr.m_queue = << >>,
                  !.mgr.m_taskLastReceived = EmptyMap,
                  !.mgr.m_taskMaxSpeed = EmptyMap,
                  !.mgr.m_taskCompletedAt = EmptyMap,
                  !.mgr.m_taskRetryCount = EmptyMap,
                  !.mgr.m_taskQueue = EmptyMap,
                  !.mgr.m_taskPausedBySchedule = EmptyMap,
                  !.mgr.m_taskPausedByQuota = EmptyMap]

\* Removal of t from a per-task map.
Drop(map, t) == [x \in (DOMAIN map) \ {t} |-> map[x]]

\* DownloadManager::removeDownload: the task leaves the containers, is
\* canceled, and its row and object are deleted.
removeDownload(s, t) ==
    LET s1 == [s EXCEPT !.mgr.m_queue = SelectSeq(@, LAMBDA x : x # t),
                        !.mgr.m_taskLastReceived = Drop(@, t),
                        !.mgr.m_taskMaxSpeed = Drop(@, t),
                        !.mgr.m_taskCompletedAt = Drop(@, t),
                        !.mgr.m_taskRetryCount = Drop(@, t),
                        !.mgr.m_taskQueue = Drop(@, t),
                        !.mgr.m_taskPausedBySchedule = Drop(@, t),
                        !.mgr.m_taskPausedByQuota = Drop(@, t),
                        !.mgr.m_taskPausedByBattery = Drop(@, t)]
        s2 == TaskCancel(s1, t)
        s3 == [s2 EXCEPT !.mgr.model = SelectSeq(@, LAMBDA row : row.task # t),
                         !.tasks[t] = [NoTask EXCEPT !.state = "Deleted"]]
    IN startQueued(s3)

restartErrors(s, i) ==
    IF i > Len(s.mgr.m_queue) THEN s
    ELSE LET t == s.mgr.m_queue[i] IN
         restartErrors(IF stateString(s.tasks[t]) = "Error" THEN TaskRestart(s, t) ELSE s,
                       i + 1)

retryFailed(s) == startQueued(restartErrors(s, 1))

setMaxConcurrent(s, v0) ==
    LET v == IF v0 < 1 THEN 1 ELSE v0 IN
    IF s.mgr.m_maxConcurrent = v THEN s
    ELSE startQueued([s EXCEPT !.mgr.m_maxConcurrent = v])

\* DownloadManager::updatePowerState, next being the power monitor's answer.
updatePowerState(s, next) ==
    IF s.mgr.m_onBattery = next THEN s
    ELSE schedulerTick(Emit([s EXCEPT !.mgr.m_onBattery = next], SigPowerStateChanged(s)))

\* DownloadManager::setPauseOnBattery; the monitor answers probe.
setPauseOnBattery(s, enabled, probe) ==
    IF s.mgr.m_pauseOnBattery = enabled THEN s
    ELSE schedulerTick(updatePowerState([s EXCEPT !.mgr.m_pauseOnBattery = enabled], probe))

setResumeOnAC(s, enabled) ==
    IF s.mgr.m_resumeOnAC = enabled THEN s
    ELSE schedulerTick([s EXCEPT !.mgr.m_resumeOnAC = enabled])

setTaskQueue(s, t, name) ==
    LET resolved == IF name = "" THEN defaultQueueName(s) ELSE name
        s1 == IF resolved \notin DOMAIN s.queues THEN createQueue(s, resolved) ELSE s
    IN startQueued(applyTaskSpeed([s1 EXCEPT !.mgr.m_taskQueue = Put(@, t, resolved)], t))

\* The reassignment loop of DownloadManager::removeQueue over the tasks ts
\* of m_taskQueue; the removed queue is still in m_queues while it runs.
reassignEach(s, ts, name, fallback) ==
    IF ts = {} THEN s
    ELSE LET t == CHOOSE x \in ts : \A y \in ts : x <= y IN
         reassignEach(
             IF s.mgr.m_taskQueue[t] = name
             THEN applyTaskSpeed([s EXCEPT !.mgr.m_taskQueue[t] = fallback], t)
             ELSE s,
             ts \ {t}, name, fallback)

\* A removeQueue without its guard on the default queue.
removeQueueUnguarded(s, name) ==
    IF name \notin DOMAIN s.queues THEN s
    ELSE LET fallback == defaultQueueName(s)
             keep == (DOMAIN s.queues) \ {name}
             s1 == reassignEach(s, DOMAIN s.mgr.m_taskQueue, name, fallback)
         IN startQueued(
              [s1 EXCEPT
                 !.queues = [q \in keep |-> @[q]],
                 !.mgr.m_queueOrder = SelectSeq(@, LAMBDA q : q # name)])

\* DownloadManager::removeQueue
removeQueue(s, name) ==
    IF name \notin DOMAIN s.queues THEN s
    ELSE IF name = defaultQueueName(s) THEN s
    ELSE LET fallback == defaultQueueName(s)
             keep == (DOMAIN s.queues) \ {name}
             s1 == reassignEach(s, DOMAIN s.mgr.m_taskQueue, name, fallback)
         IN startQueued(
              [s1 EXCEPT
                 !.queues = [q \in keep |-> @[q]],
                 !.mgr.m_queueOrder = SelectSeq(@, LAMBDA q : q # name)])

\* A renameQueue that leaves m_taskQueue as it is.
renameQueueOnly(s, oldName, newName) ==
    LET trimmed == Trimmed(newName) IN
    IF trimmed = "" THEN s
    ELSE IF oldName \notin DOMAIN s.queues THEN s
    ELSE IF trimmed \in DOMAIN s.queues THEN s
    ELSE LET info == [s.queues[oldName] EXCEPT !.name = trimmed]
             keep == (DOMAIN s.queues) \ {oldName}
         IN [s EXCEPT
               !.queues = Put([q \in keep |-> @[q]], trimmed, info),
               !.mgr.m_queueOrder = [i \in 1..Len(@) |-> IF @[i] = oldName THEN trimmed ELSE @[i]]]

\* DownloadManager::renameQueue
renameQueue(s, oldName, newName) ==
    LET trimmed == Trimmed(newName) IN
    IF trimmed = "" THEN s
    ELSE IF oldName \notin DOMAIN s.queues THEN s
    ELSE IF trimmed \in DOMAIN s.queues THEN s
    ELSE LET info == [s.queues[oldName] EXCEPT !.name = trimmed]
             keep == (DOMAIN s.queues) \ {oldName}
         IN [s EXCEPT
               !.queues = Put([q \in keep |-> @[q]], trimmed, info),
               !.mgr.m_queueOrder = [i \in 1..Len(@) |-> IF @[i] = oldName THEN trimmed ELSE @[i]],
               !.mgr.m_taskQueue = [t \in DOMAIN @ |-> IF @[t] = oldName THEN trimmed ELSE @[t]]]

\* DownloadManager::setGlobalMaxSpeed
applyEach(s, i) ==
    IF i > Len(s.mgr.m_queue) THEN s
    ELSE applyEach(applyTaskSpeed(s, s.mgr.m_queue[i]), i + 1)

setGlobalMaxSpeed(s, v0) ==
    LET v == IF v0 < 0 THEN 0 ELSE v0 IN
    IF s.mgr.m_globalMaxSpeed = v THEN s
    ELSE applyEach([s EXCEPT !.mgr.m_globalMaxSpeed = v], 1)

\* DownloadManager::setTaskMaxSpeed
setTaskMaxSpeed(s, t, v0) ==
    LET v == IF v0 < 0 THEN 0 ELSE v0 IN
    IF Value(s.mgr.m_taskMaxSpeed, t, 0) = v THEN s
    ELSE applyTaskSpeed([s EXCEPT !.mgr.m_taskMaxSpeed = Put(@, t, v)], t)

\* The loop of DownloadManager::setQueueMaxSpeed over the tasks ts of
\* m_taskQueue.
applyQueue(s, ts, name) ==
    IF ts = {} THEN s
    ELSE LET t == CHOOSE x \in ts : \A y \in ts : x <= y IN
         applyQueue(IF s.mgr.m_taskQueue[t] = name THEN applyTaskSpeed(s, t) ELSE s,
                    ts \ {t}, name)

\* DownloadManager::setQueueMaxSpeed
setQueueMaxSpeed(s, name, v0) ==
    IF name \notin DOMAIN s.queues THEN s
    ELSE LET v == IF v0 < 0 THEN 0 ELSE v0 IN
         IF s.queues[name].maxSpeed = v THEN s
         ELSE applyQueue([s EXCEPT !.queues[name].maxSpeed = v],
                         DOMAIN s.mgr.m_taskQueue, name)

setQueueMaxConcurrent(s, name, v0) ==
    IF name \notin DOMAIN s.queues THEN s
    ELSE LET v == IF v0 < 1 THEN 1 ELSE v0 IN
         IF s.queues[name].maxConcurrent = v THEN s
         ELSE startQueued([s EXCEPT !.queues[name].maxConcurrent = v])

setQueueScheduleEnabled(s, name, enabled) ==
    IF name \notin DOMAIN s.queues THEN s
    ELSE IF s.queues[name].scheduleEnabled = enabled THEN s
    ELSE startQueued(enforceQueuePolicies([s EXCEPT !.queues[name].scheduleEnabled = enabled]))

\* qBound(0, minutes, 23 * 60 + 59)
BoundMinutes(m) == IF m < 0 THEN 0 ELSE IF m > 23 * 60 + 59 THEN 23 * 60 + 59 ELSE m

setQueueScheduleStartMinutes(s, name, minutes) ==
    IF name \notin DOMAIN s.queues THEN s
    ELSE IF s.queues[name].startMinutes = BoundMinutes(minutes) THEN s
    ELSE enforceQueuePolicies([s EXCEPT !.queues[name].startMinutes = BoundMinutes(minutes)])

setQueueScheduleEndMinutes(s, name, minutes) ==
    IF name \notin DOMAIN s.queues THEN s
    ELSE IF s.queues[name].endMinutes = BoundMinutes(minutes) THEN s
    ELSE enforceQueuePolicies([s EXCEPT !.queues[name].endMinutes = BoundMinutes(minutes)])

setQueueQuotaEnabled(s, name, enabled) ==
    IF name \notin DOMAIN s.queues THEN s
    ELSE IF s.queues[name].quotaEnabled = enabled THEN s
    ELSE enforceQueuePolicies([s EXCEPT !.queues[name].quotaEnabled = enabled])

setQueueQuotaBytes(s, name, bytes0) ==
    IF name \notin DOMAIN s.queues THEN s
    ELSE LET bytes == IF bytes0 < 0 THEN 0 ELSE bytes0 IN
         IF s.queues[name].quotaBytes = bytes THEN s
         ELSE enforceQueuePolicies([s EXCEPT !.queues[name].quotaBytes = bytes])

\* The retry timer armed by onTaskFinishedWrapper fires.
retryTimerFired(s, t) ==
    LET s1 == [s EXCEPT !.timers[t] = @ - 1] IN
    IF stateString(s1.tasks[t]) = "Error" THEN startQueued(TaskRestart(s1, t)) ELSE s1

\* A Downloading task's transfer ends: the finished handler of its last
\* reply sets Finished and emits finished(!m_anyError).
transferFinished(s, t, ok) ==
    EmitFinished([s EXCEPT !.tasks[t].anyError = ~ok,
                           !.tasks[t].state = "Finished"], t, ok)

\* A reply of a Downloading task brings an ETag or a Last-Modified header:
\* the HEAD and metaDataChanged handlers store it.
transferMetaData(s, t) == [s EXCEPT !.tasks[t].etag = TRUE]

\* A Downloading task writes n more bytes and emits progress(totalDownloaded).
transferProgress(s, t, n) ==
    LET s1 == [s EXCEPT !.tasks[t].downloaded = @ + n] IN
    onTaskProgress(s1, t, s1.tasks[t].downloaded)


(***************************************************************************)
(* Part II models one DownloaderTask (src/core/downloadertask.cpp) in      *)
(* detail: the HEAD probe, the single stream and the segments with their   *)
(* buffers, throttle and timers, and the files on disk.  The server and    *)
(* the event loop are the environment.  A handler is an operator on the    *)
(* record x = [dt, disk, trace].                                           *)
(***************************************************************************)
MaxSegments == 3
SmallTotal == 3
ThrottleSpeed == 1000

LargeTotal == 4 * 1024 * 1024 + 1
Chunk == 2 * 1024 * 1024

\* The files of the task: m_filePath, m_filePath + ".part", and
\* m_filePath + ".partN" for segment N.
PathMain == <<"main", 0>>
PathPart == <<"part", 0>>
SegPath(i) == <<"partN", i>>
SegIndexes == 0..(MaxSegments - 1)
Paths == {PathMain, PathPart} \cup {SegPath(i) : i \in SegIndexes}

NoFile == [exists |-> FALSE, size |-> 0]

Exists(x, p) == x.disk[p].exists

FileSize(x, p) == x.disk[p].size

\* QFile::remove
Remove(x, p) == [x EXCEPT !.disk[p] = NoFile]

\* QFile::open(WriteOnly | Append): the file is created when missing.
OpenAppend(x, p) == [x EXCEPT !.disk[p].exists = TRUE]

\* QFile::open(WriteOnly | Truncate)
OpenTruncate(x, p) == [x EXCEPT !.disk[p] = [exists |-> TRUE, size |-> 0]]

\* QFile::write of n bytes at the end of the file
Write(x, p, n) == [x EXCEPT !.disk[p] = [exists |-> TRUE, size |-> @.size + n]]

\* No I/O failure.
NoFault == <<"none", 0>>

\* A QNetworkReply as the model tracks it: the status line once metaData has
\* arrived, the body bytes delivered so far and the bytes the server sends in
\* all; existing is the existingSize the metaData handler captured.
NoReply == [live |-> FALSE, status |-> 0, sent |-> 0, expect |-> 0, existing |-> 0]

NewReply(existing) == [NoReply EXCEPT !.live = TRUE, !.existing = existing]

\* emit finished(success) of the task
TaskFinished(x, success) ==
    [x EXCEPT !.trace = Append(@, [ev |-> "finished", task |-> 0,
                                   info |-> IF success THEN "true" ELSE "false",
                                   state |-> x.dt.state, bulk |-> FALSE])]

AddTimer(x, kind, i) == [x EXCEPT !.dt.timers = @ \cup {<<kind, i>>}]

SegLen(sg) == sg.end - sg.start + 1

\* A processor that writes whatever is buffered, limit or not.
AllowedWholeBuffer(x, elapsedMs0, buffered) == buffered

\* The bytes the throttle window still allows; elapsedMs is what
\* m_throttleTimer.elapsed() returns.
Allowed(x, elapsedMs0, buffered) ==
    LET elapsedMs == IF elapsedMs0 = 0 THEN 1 ELSE elapsedMs0 IN
    IF x.dt.maxSpeed > 0
    THEN (x.dt.maxSpeed * elapsedMs) \div 1000 - x.dt.throttleBytes
    ELSE buffered

\* DownloaderTask::processSingleBuffer
processSingleBuffer(x, elapsedMs) ==
    IF ~x.dt.singleFile THEN x
    ELSE IF x.dt.singleProcessing THEN x
    ELSE IF x.dt.singleBuffer = 0 THEN x
    ELSE IF x.dt.state # "Downloading" THEN x
    ELSE LET allowed == Allowed(x, elapsedMs, x.dt.singleBuffer) IN
         IF allowed <= 0
         THEN AddTimer([x EXCEPT !.dt.singleProcessing = TRUE], "single50", 0)
         ELSE LET toWrite == Min(allowed, x.dt.singleBuffer)
                  x1 == Write(x, x.dt.singleTempPath, toWrite)
                  x2 == [x1 EXCEPT !.dt.singleBuffer = @ - toWrite,
                                   !.dt.throttleBytes =
                                       IF elapsedMs >= 1000 THEN 0 ELSE @ + toWrite,
                                   !.dt.singleWritten = @ + toWrite,
                                   !.dt.singleProcessing = FALSE]
              IN IF x2.dt.singleBuffer # 0 THEN AddTimer(x2, "single10", 0) ELSE x2

\* DownloaderTask::processSegmentBuffer for segment i (1-based in segs)
processSegmentBuffer(x, i, elapsedMs) ==
    LET sg == x.dt.segs[i] IN
    IF ~sg.file THEN x
    ELSE IF sg.processing THEN x
    ELSE IF sg.buffer = 0 THEN x
    ELSE IF x.dt.state # "Downloading" THEN x
    ELSE LET allowed == Allowed(x, elapsedMs, sg.buffer) IN
         IF allowed <= 0
         THEN AddTimer(x, "segment", i)
         ELSE LET toWrite == Min(allowed, sg.buffer)
                  x1 == Write(x, SegPath(i - 1), toWrite)
                  x2 == [x1 EXCEPT !.dt.segs[i].buffer = @ - toWrite,
                                   !.dt.segs[i].downloaded = @ + toWrite,
                                   !.dt.throttleBytes =
                                       IF elapsedMs >= 1000 THEN 0 ELSE @ + toWrite]
              IN IF x2.dt.segs[i].buffer # 0 THEN AddTimer(x2, "segment", i) ELSE x2

\* The end of the single-stream finished handler once the reply and the
\* file are released: the temp file is renamed and finished is emitted.
finalizeSingle(x) ==
    IF x.dt.state \in {"Paused", "Canceled"} THEN x
    ELSE IF ~(x.dt.useSingleTemp /\ x.dt.singleTempPath # PathMain)
    THEN TaskFinished([x EXCEPT !.dt.state = "Finished"], ~x.dt.anyError)
    ELSE IF Exists(x, x.dt.singleTempPath)
    THEN TaskFinished([Remove(x, x.dt.singleTempPath) EXCEPT
                          !.disk[PathMain] = x.disk[x.dt.singleTempPath],
                          !.dt.state = "Finished"], ~x.dt.anyError)
    ELSE TaskFinished([Remove(x, PathMain) EXCEPT !.dt.anyError = TRUE,
                                                  !.dt.state = "Finished"], FALSE)

\* The flush of the single-stream finished handler: what the throttle
\* allows of the buffer is written, unless a throttle timer holds it.
flushSingle(x, elapsedMs) ==
    IF ~x.dt.singleProcessing /\ x.dt.singleBuffer > 0
    THEN processSingleBuffer(x, elapsedMs) ELSE x

\* The finished handler of the single-stream reply (startSingleStream).
singleFinished(x, error, elapsedMs) ==
    finalizeSingle(
        [flushSingle(IF x.dt.state = "Downloading" /\ error
                     THEN [x EXCEPT !.dt.anyError = TRUE] ELSE x, elapsedMs)
            EXCEPT !.dt.singleFile = FALSE, !.dt.singleReply = NoReply])

\* The head of DownloaderTask::startSingleStream.  A reply still set is
\* aborted without being disconnected, so its finished handler runs at once
\* and clears m_singleReply; the deleteLater that follows is a call through
\* that null pointer: crash tells whether the process survives it.
resetSingle(x, crash, elapsedMs) ==
    [(IF x.dt.singleReply.live
      THEN [singleFinished(x, TRUE, elapsedMs) EXCEPT !.dt.crashed = crash]
      ELSE x) EXCEPT
        !.dt.singleReply = NoReply, !.dt.singleFile = FALSE,
        !.dt.singleBuffer = 0, !.dt.singleProcessing = FALSE]

\* The rest of DownloaderTask::startSingleStream: the temp policy, the open
\* of the file and the GET.
openSingle(x, resume) ==
    LET resume0 == resume /\ x.dt.useRange
        useSingleTemp == Exists(x, PathPart) \/ ~Exists(x, PathMain)
        tempPath == IF useSingleTemp THEN PathPart ELSE PathMain
        existingSize == IF resume0 /\ x.disk[tempPath].exists
                        THEN x.disk[tempPath].size ELSE 0
        resumeSingle == IF resume0 /\ x.disk[tempPath].exists
                        THEN existingSize > 0 ELSE resume0
    IN [x EXCEPT !.disk[tempPath] =
                     IF resumeSingle THEN [@ EXCEPT !.exists = TRUE]
                     ELSE [exists |-> TRUE, size |-> 0],
                 !.dt.resumeSingle = resumeSingle,
                 !.dt.useSingleTemp = useSingleTemp,
                 !.dt.singleTempPath = tempPath,
                 !.dt.singleFile = TRUE,
                 !.dt.singleWritten = IF resumeSingle THEN existingSize ELSE 0,
                 !.dt.singleReply = NewReply(existingSize)]

\* DownloaderTask::startSingleStream(resume)
startSingleStream(x, resume, crash, elapsedMs) ==
    openSingle(resetSingle(x, crash, elapsedMs), resume)


RECURSIVE mergeParts(_, _)
RECURSIVE prepareSegments(_, _, _, _, _)
RECURSIVE prepareSegmentsEqual(_, _, _, _, _)
RECURSIVE startIncomplete(_, _)
RECURSIVE removeParts(_, _, _)

\* The I/O failure the merge meets: none, or the open of the output, the
\* open of the part of segment i, or a short write while that part is copied.
Fails(x, kind, i) == x.dt.mergeFault = <<kind, i>>

\* What holds of the segments when the merge is called.
MergeReadiness(x) ==
    IF x.dt.anyError THEN "error"
    ELSE IF \E i \in 1..Len(x.dt.segs) : x.dt.segs[i].downloaded < SegLen(x.dt.segs[i])
    THEN "incomplete"
    ELSE IF \E i \in 1..Len(x.dt.segs) :
                \/ x.dt.segs[i].buffer > 0
                \/ x.dt.segs[i].reply.live
                   /\ x.dt.segs[i].reply.sent < x.dt.segs[i].reply.expect
    THEN "delivering"
    ELSE "ready"

\* The call of mergeSegments is recorded in the trace.
MergeCalled(x) ==
    [x EXCEPT !.trace = Append(@, [ev |-> "merge", task |-> 0,
                                   info |-> MergeReadiness(x),
                                   state |-> x.dt.state, bulk |-> FALSE])]

\* The copy loop of DownloaderTask::mergeSegments from segment i on:
\* <<ok, x>>.  A part is appended whole, whatever its length, and removed;
\* a short write leaves the output with less than the part.
mergeParts(x, i) ==
    IF i > Len(x.dt.segs) THEN <<TRUE, x>>
    ELSE IF ~Exists(x, SegPath(i - 1)) \/ Fails(x, "openPart", i) THEN <<FALSE, x>>
    ELSE IF Fails(x, "shortWrite", i) /\ FileSize(x, SegPath(i - 1)) > 0
    THEN <<FALSE, Write(x, PathMain, FileSize(x, SegPath(i - 1)) - 1)>>
    ELSE mergeParts(Remove(Write(x, PathMain, FileSize(x, SegPath(i - 1))),
                           SegPath(i - 1)), i + 1)

\* DownloaderTask::mergeSegments: <<ok, x>>
mergeSegments(x) ==
    IF Fails(x, "openOutput", 0) THEN <<FALSE, MergeCalled(x)>>
    ELSE mergeParts(OpenTruncate(MergeCalled(x), PathMain), 1)

\* DownloaderTask::onSegmentFinished
onSegmentFinished(x) ==
    IF x.dt.state # "Downloading" THEN x
    ELSE IF \E i \in 1..Len(x.dt.segs) : x.dt.segs[i].downloaded < SegLen(x.dt.segs[i])
    THEN x
    ELSE IF x.dt.anyError
    THEN TaskFinished([x EXCEPT !.dt.state = "Finished"], FALSE)
    ELSE LET m == mergeSegments(x) IN
         IF ~m[1]
         THEN TaskFinished([m[2] EXCEPT !.dt.anyError = TRUE,
                                        !.dt.state = "Finished"], FALSE)
         ELSE TaskFinished([m[2] EXCEPT !.dt.state = "Finished"], TRUE)

\* DownloaderTask::startSegment for segment i
startSegment(x, i) ==
    IF x.dt.state # "Downloading" THEN x
    ELSE [OpenAppend(x, SegPath(i - 1)) EXCEPT
             !.dt.segs[i].file = TRUE,
             !.dt.segs[i].reply = NewReply(x.dt.segs[i].downloaded)]

\* The segment count DownloaderTask::start derives from the total size.
SegCount(totalSize, segments) ==
    IF totalSize < 4 * 1024 * 1024 THEN 1
    ELSE IF totalSize < 32 * 1024 * 1024 THEN Min(2, segments)
    ELSE IF totalSize < 128 * 1024 * 1024 THEN Min(4, segments)
    ELSE segments

\* A split in which the last segment does not take the remainder.
prepareSegmentsEqual(x, i, segCount, segSize, hasPartialSegments) ==
    IF i >= segCount THEN x
    ELSE prepareSegmentsEqual(
             [x EXCEPT !.dt.segs =
                 Append(@, [start |-> i * segSize, end |-> (i + 1) * segSize - 1,
                            downloaded |-> 0, file |-> FALSE, reply |-> NoReply,
                            buffer |-> 0, processing |-> FALSE])],
             i + 1, segCount, segSize, hasPartialSegments)

\* The "Prepare segments" loop of the HEAD handler, from segment i (0-based).
prepareSegments(x, i, segCount, segSize, hasPartialSegments) ==
    IF i >= segCount THEN x
    ELSE LET start == i * segSize
             end == IF i = segCount - 1 THEN x.dt.totalSize - 1
                    ELSE (i + 1) * segSize - 1
             keep == hasPartialSegments /\ Exists(x, SegPath(i))
             sg == [start |-> start, end |-> end,
                    downloaded |-> IF keep THEN Min(FileSize(x, SegPath(i)), end - start + 1)
                                   ELSE 0,
                    file |-> FALSE, reply |-> NoReply, buffer |-> 0,
                    processing |-> FALSE]
             x1 == IF keep THEN x ELSE Remove(x, SegPath(i))
         IN prepareSegments([x1 EXCEPT !.dt.segs = Append(@, sg)], i + 1,
                            segCount, segSize, hasPartialSegments)

\* QFile::remove of the parts i .. last (0-based).
removeParts(x, i, last) ==
    IF i > last THEN x ELSE removeParts(Remove(x, SegPath(i)), i + 1, last)

\* The loop of the HEAD handler that starts every incomplete segment.
startIncomplete(x, i) ==
    IF i > Len(x.dt.segs) THEN x
    ELSE IF x.dt.segs[i].downloaded >= SegLen(x.dt.segs[i]) THEN startIncomplete(x, i + 1)
    ELSE startIncomplete(startSegment(x, i), i + 1)

\* The end of the segmented branch of the HEAD handler: every incomplete
\* segment is started, or the merge runs at once when none is.
startPrepared(x) ==
    IF \E i \in 1..Len(x.dt.segs) : x.dt.segs[i].downloaded < SegLen(x.dt.segs[i])
    THEN startIncomplete(x, 1) ELSE onSegmentFinished(x)

\* The segmented branch of the HEAD handler.
startSegmented(x, segCount, hasPartialSegments) ==
    startPrepared(
        removeParts(prepareSegments([x EXCEPT !.dt.segs = << >>], 0, segCount,
                                    x.dt.totalSize \div segCount, hasPartialSegments),
                    segCount, x.dt.segments - 1))

\* The branch of the HEAD handler for a valid Content-Length.
startSized(x, cap, crash, elapsedMs) ==
    IF ~x.dt.useRange \/ x.dt.segments = 1
    THEN startSingleStream(x, cap.hasExistingFile, crash, elapsedMs)
    ELSE startSegmented(x, SegCount(x.dt.totalSize, x.dt.segments),
                        cap.hasPartialSegments)

\* The finished handler of the HEAD reply (DownloaderTask::start).  error:
\* the probe failed; contentLength: 0 when the header is absent.
headFinished(x, error, contentLength, acceptRanges, crash, elapsedMs) ==
    IF x.dt.state # "Downloading" THEN [x EXCEPT !.dt.headReply = FALSE]
    ELSE IF error
    THEN startSingleStream([x EXCEPT !.dt.headReply = FALSE, !.dt.totalSize = 0,
                                     !.dt.useRange = TRUE],
                           x.dt.headCapture.hasExistingFile, crash, elapsedMs)
    ELSE IF contentLength <= 0
    THEN startSingleStream([x EXCEPT !.dt.headReply = FALSE, !.dt.totalSize = 0,
                                     !.dt.useRange = FALSE], FALSE, crash, elapsedMs)
    ELSE startSized([x EXCEPT !.dt.headReply = FALSE,
                              !.dt.totalSize = contentLength,
                              !.dt.useRange = IF acceptRanges THEN @ ELSE FALSE],
                    x.dt.headCapture, crash, elapsedMs)

\* DownloaderTask::start
start(x) ==
    IF x.dt.state # "Idle" THEN x
    ELSE LET hasExistingFile == Exists(x, PathMain) /\ FileSize(x, PathMain) > 0
             hasPartialSegments ==
                 x.dt.segments > 1
                 /\ \E i \in 0..(x.dt.segments - 1) : Exists(x, SegPath(i))
             x1 == [x EXCEPT !.dt.throttleBytes = 0, !.dt.pauseReason = ""]
         IN
         IF ~x.dt.urlValid
         THEN TaskFinished([x1 EXCEPT !.dt.anyError = TRUE,
                                      !.dt.state = "Finished"], FALSE)
         ELSE [x1 EXCEPT !.dt.anyError = FALSE,
                         !.dt.state = "Downloading",
                         !.dt.headReply = TRUE,
                         !.dt.headCapture =
                             [hasExistingFile |-> hasExistingFile,
                              hasPartialSegments |-> hasPartialSegments]]

\* The segment loop shared by pause() and cleanup(): replies dropped and
\* files closed; cleanup also zeroes the counter and removes the part.
cleanupSegments(x, remove) ==
    [x EXCEPT !.dt.segs =
        [i \in 1..Len(@) |->
            [@[i] EXCEPT !.reply = NoReply, !.file = FALSE, !.buffer = 0,
                         !.processing = FALSE,
                         !.downloaded = IF remove THEN 0 ELSE @]],
              !.disk =
        [p \in Paths |->
            IF remove /\ \E i \in 1..Len(x.dt.segs) : p = SegPath(i - 1)
            THEN NoFile ELSE @[p]]]

\* DownloaderTask::pause
pause(x) ==
    IF x.dt.state # "Downloading" THEN x
    ELSE [cleanupSegments([x EXCEPT !.dt.state = "Paused"], FALSE) EXCEPT
             !.dt.pauseReason = IF @ = "" THEN "User" ELSE @,
             !.dt.headReply = FALSE,
             !.dt.singleReply = NoReply,
             !.dt.singleFile = FALSE,
             !.dt.singleBuffer = 0,
             !.dt.singleProcessing = FALSE]

\* DownloaderTask::pauseWithReason
pauseWithReason(x, reason) ==
    IF x.dt.state # "Downloading" THEN x
    ELSE pause([x EXCEPT !.dt.pauseReason = reason])

\* DownloaderTask::resume
resume(x) ==
    IF x.dt.state # "Paused" THEN x
    ELSE start([x EXCEPT !.dt.pauseReason = "", !.dt.state = "Idle"])

\* DownloaderTask::cleanup(emitFinished)
cleanup(x, emitFinished) ==
    LET x1 == [cleanupSegments(x, TRUE) EXCEPT
                  !.dt.singleFile = FALSE,
                  !.dt.singleReply = NoReply,
                  !.dt.headReply = FALSE,
                  !.dt.singleBuffer = 0,
                  !.dt.singleProcessing = FALSE,
                  !.dt.singleWritten = 0]
        x2 == IF x1.dt.useSingleTemp THEN Remove(x1, x1.dt.singleTempPath)
              ELSE Remove(x1, PathMain)
    IN IF emitFinished THEN TaskFinished(x2, FALSE) ELSE x2

\* cancel() without its guard on the terminal states.
cancelUnguarded(x) ==
    cleanup([x EXCEPT !.dt.state = "Canceled", !.dt.pauseReason = ""], TRUE)

\* DownloaderTask::cancel
cancel(x) ==
    IF x.dt.state \in {"Finished", "Canceled"} THEN x
    ELSE cleanup([x EXCEPT !.dt.state = "Canceled", !.dt.pauseReason = ""], TRUE)

\* DownloaderTask::restart
restart(x) == start([cleanup(x, FALSE) EXCEPT !.dt.state = "Idle"])


\* The metaDataChanged handler of the single-stream reply; expect is the
\* body length the server announces.  After a rejected resume the handler
\* aborts the reply, whose finished handler runs at once and clears
\* m_singleReply; the deleteLater that follows is a call through that null
\* pointer: crash tells whether the process survives it.
singleMetaData(x, status, expect, crash, elapsedMs) ==
    LET x1 == [x EXCEPT !.dt.singleReply.status = status,
                        !.dt.singleReply.expect = expect]
    IN
    IF ~x1.dt.resumeSingle THEN x1
    ELSE IF status >= 400
    THEN LET x2 == singleFinished(x1, TRUE, elapsedMs)
             x3 == [x2 EXCEPT !.dt.crashed = crash,
                              !.dt.singleFile = FALSE,
                              !.dt.resumeSingle = FALSE,
                              !.dt.singleWritten = 0]
         IN IF crash THEN x3 ELSE AddTimer(x3, "restartSingle", 0)
    ELSE IF status # 206
    THEN [IF x1.dt.singleFile THEN OpenTruncate(x1, x1.dt.singleTempPath) ELSE x1
             EXCEPT !.dt.resumeSingle = FALSE, !.dt.singleWritten = 0]
    ELSE x1

\* The readyRead handler of the single-stream reply, n bytes having arrived.
singleReadyRead(x, n, elapsedMs) ==
    LET x1 == [x EXCEPT !.dt.singleReply.sent = @ + n,
                        !.dt.singleBuffer = @ + n]
    IN IF ~x1.dt.singleProcessing THEN processSingleBuffer(x1, elapsedMs) ELSE x1

\* The metaDataChanged handler of segment i's reply.
segmentMetaData(x, i, status, expect) ==
    LET sg == x.dt.segs[i]
        x1 == [x EXCEPT !.dt.segs[i].reply.status = status,
                        !.dt.segs[i].reply.expect = expect]
        isWholeFileRange == sg.start = 0 /\ x.dt.totalSize > 0
                            /\ sg.end = x.dt.totalSize - 1
    IN
    IF status = 206 THEN x1
    ELSE IF status = 200 /\ (Len(x.dt.segs) <= 1 \/ isWholeFileRange) THEN x1
    ELSE IF status = 200
    THEN AddTimer([x1 EXCEPT !.dt.useRange = FALSE], "fallback", i)
    ELSE x1

\* The readyRead handler of segment i's reply.
segmentReadyRead(x, i, n, elapsedMs) ==
    LET x1 == [x EXCEPT !.dt.segs[i].reply.sent = @ + n,
                        !.dt.segs[i].buffer = @ + n]
    IN IF ~x1.dt.segs[i].processing THEN processSegmentBuffer(x1, i, elapsedMs) ELSE x1

\* The flush of the segment finished handler.
flushSegment(x, i, elapsedMs) ==
    IF ~x.dt.segs[i].processing /\ x.dt.segs[i].buffer > 0
    THEN processSegmentBuffer(x, i, elapsedMs) ELSE x

\* The end of the segment finished handler.
finalizeSegment(x) ==
    IF x.dt.state \in {"Paused", "Canceled"} THEN x ELSE onSegmentFinished(x)

\* The finished handler of segment i's reply (startSegment).
segmentFinished(x, i, error, elapsedMs) ==
    finalizeSegment(
        [flushSegment(IF x.dt.state = "Downloading" /\ error
                      THEN [x EXCEPT !.dt.anyError = TRUE] ELSE x, i, elapsedMs)
            EXCEPT !.dt.segs[i].file = FALSE, !.dt.segs[i].reply = NoReply])

\* A QTimer::singleShot callback of the task runs.  A segment timer holds a
\* pointer into m_segmentsInfo; when the list has since become shorter the
\* pointer dangles, and crash tells whether the process survives its use.
timerFired(x, kind, i, crash, elapsedMs) ==
    LET x1 == [x EXCEPT !.dt.timers = @ \ {<<kind, i>>}] IN
    CASE kind = "single50" ->
            processSingleBuffer([x1 EXCEPT !.dt.singleProcessing = FALSE], elapsedMs)
      [] kind = "single10" -> processSingleBuffer(x1, elapsedMs)
      [] kind = "segment" ->
            IF i <= Len(x1.dt.segs) THEN processSegmentBuffer(x1, i, elapsedMs)
            ELSE [x1 EXCEPT !.dt.crashed = crash]
      [] kind = "restartSingle" ->
            IF x1.dt.state = "Downloading"
            THEN startSingleStream(x1, FALSE, crash, elapsedMs)
            ELSE x1
      [] kind = "fallback" ->
            IF x1.dt.state # "Downloading" THEN x1
            ELSE startSingleStream(cleanup(x1, FALSE), FALSE, crash, elapsedMs)
      [] OTHER -> x1


\* A DownloaderTask as its constructor leaves it, in the state the session
\* restore seeds.  m_useRange and m_useSingleTemp get the defaults of the
\* class declaration.
NewDownloaderTask(state, urlValid, segments, useRange, useSingleTemp, maxSpeed) ==
    [state |-> state, anyError |-> FALSE, urlValid |-> urlValid,
     pauseReason |-> IF state = "Paused" THEN "User" ELSE "",
     segments |-> segments, useRange |-> useRange, totalSize |-> 0,
     maxSpeed |-> maxSpeed, throttleBytes |-> 0,
     headReply |-> FALSE,
     headCapture |-> [hasExistingFile |-> FALSE, hasPartialSegments |-> FALSE],
     segs |-> << >>,
     singleReply |-> NoReply, singleFile |-> FALSE, singleBuffer |-> 0,
     singleProcessing |-> FALSE, singleWritten |-> 0, resumeSingle |-> FALSE,
     useSingleTemp |-> useSingleTemp, singleTempPath |-> PathPart,
     timers |-> {}, crashed |-> FALSE, mergeFault |-> NoFault]

(*********************** Part I: the state machine *************************)
\* The current state as the record the handlers work on; the signals of the
\* handler about to run are collected from an empty trace.
Cur == [tasks |-> tasks, mgr |-> mgr, queues |-> queues, clock |-> clock,
        timers |-> timers, trace |-> << >>]

\* The model's bounds on a handler's result.
WithinBounds(r) ==
    /\ \A t \in TaskIds : r.timers[t] <= MaxTimers /\ r.tasks[t].downloaded <= MaxBytes
    /\ \A t \in TaskIds : r.tasks[t].retries <= MaxRetries
    /\ \A q \in DOMAIN r.queues : r.queues[q].downloadedToday <= MaxBytes

Apply(r) ==
    /\ tasks' = r.tasks
    /\ mgr' = r.mgr
    /\ queues' = r.queues
    /\ clock' = r.clock
    /\ timers' = r.timers
    /\ trace' = r.trace
    /\ UNCHANGED <<dt, disk, remote, commands, stale, wall>>

\* The tasks that exist: created and not yet deleted.
Present == {t \in TaskIds : tasks[t].state \notin {"Absent", "Deleted"}}

Unused == {t \in TaskIds : tasks[t].state = "Absent"}

\* The DownloadManager after its constructor found no saved session:
\* ensureDefaultQueue, loadSession, schedulerTick, updatePowerState.
InitState(maxConcurrent, autoRetryMax, now) ==
    [tasks |-> [t \in TaskIds |-> NoTask],
     mgr |-> [m_queue |-> << >>, model |-> << >>,
              m_maxConcurrent |-> maxConcurrent, m_autoRetryMax |-> autoRetryMax,
              m_pauseOnBattery |-> FALSE, m_resumeOnAC |-> TRUE, m_onBattery |-> FALSE,
              m_bulkCancelInProgress |-> FALSE,
              m_queueOrder |-> <<General>>,
              m_taskQueue |-> EmptyMap, m_taskPausedBySchedule |-> EmptyMap,
              m_taskPausedByQuota |-> EmptyMap, m_taskPausedByBattery |-> EmptyMap,
              m_taskRetryCount |-> EmptyMap, m_taskLastReceived |-> EmptyMap,
              m_taskCompletedAt |-> EmptyMap,
              m_globalMaxSpeed |-> 0, m_taskMaxSpeed |-> EmptyMap],
     queues |-> [q \in {General} |->
                    [name |-> General, maxConcurrent |-> maxConcurrent,
                     scheduleEnabled |-> FALSE, startMinutes |-> 0, endMinutes |-> 0,
                     quotaEnabled |-> FALSE, quotaBytes |-> 0, downloadedToday |-> 0,
                     lastResetDate |-> 0, maxSpeed |-> 0]],
     clock |-> [now |-> now, today |-> 0],
     timers |-> [t \in TaskIds |-> 0],
     trace |-> << >>]

Init ==
    \E mc \in 1..MaxConcurrent, ar \in AutoRetryMaxValues, now \in Minutes :
        LET r == InitState(mc, ar, now) IN
        /\ tasks = r.tasks
        /\ mgr = r.mgr
        /\ queues = r.queues
        /\ clock = r.clock
        /\ timers = r.timers
        /\ trace = r.trace
        /\ dt = NewDownloaderTask("Idle", TRUE, 1, TRUE, TRUE, 0)
        /\ disk = [p \in Paths |-> NoFile]
        /\ remote = SmallTotal
    /\ commands = 0
    /\ stale = {}
    /\ wall = WallIdle

\* The task object a new download gets: the lowest unused one.
NewTask == CHOOSE x \in Unused : \A y \in Unused : x <= y

\* addDownload(url, path): the default queue, no options.
AddDownload ==
    /\ Unused # {}
    /\ LET r == addDownloadInternal(Cur, NewTask, defaultQueueName(Cur), << >>, -1, FALSE) IN WithinBounds(r) /\ Apply(r)

\* addDownloadAdvancedWithOptions(url, path, queue, category, startPaused)
AddDownloadAdvancedWithOptions ==
    /\ Unused # {}
    /\ \E q \in QueueNames \cup {""}, sp \in BOOLEAN :
          LET r == addDownloadInternal(Cur, NewTask, q, << >>, -1, sp) IN WithinBounds(r) /\ Apply(r)

\* addDownloadAdvancedWithExtras(..., options): mirrors and a retry limit.
AddDownloadAdvancedWithExtras ==
    /\ Unused # {}
    /\ \E m \in MirrorChoices, rm \in RetryMaxValues :
          LET r == addDownloadInternal(Cur, NewTask, "", m, rm, FALSE) IN WithinBounds(r) /\ Apply(r)

PauseTask == \E t \in Present : LET r == pauseTask(Cur, t) IN WithinBounds(r) /\ Apply(r)

ResumeTask == \E t \in Present : LET r == resumeTask(Cur, t) IN WithinBounds(r) /\ Apply(r)

TogglePause == \E t \in Present : LET r == togglePause(Cur, t) IN WithinBounds(r) /\ Apply(r)

PauseAll == LET r == pauseAll(Cur) IN WithinBounds(r) /\ Apply(r)

ResumeAll == LET r == resumeAll(Cur) IN WithinBounds(r) /\ Apply(r)

RemoveDownload ==
    \E t \in Present : LET r == removeDownload(Cur, t) IN WithinBounds(r) /\ Apply(r)

CancelAll == LET r == cancelAll(Cur) IN WithinBounds(r) /\ Apply(r)

RetryFailed == LET r == retryFailed(Cur) IN WithinBounds(r) /\ Apply(r)

SetMaxConcurrent == \E v \in 0..MaxConcurrent : LET r == setMaxConcurrent(Cur, v) IN WithinBounds(r) /\ Apply(r)

SetPauseOnBattery == \E b \in BOOLEAN, probe \in BOOLEAN : LET r == setPauseOnBattery(Cur, b, probe) IN WithinBounds(r) /\ Apply(r)

SetResumeOnAC == \E b \in BOOLEAN : LET r == setResumeOnAC(Cur, b) IN WithinBounds(r) /\ Apply(r)

\* The power timer's timeout.
UpdatePowerState == \E next \in BOOLEAN : LET r == updatePowerState(Cur, next) IN WithinBounds(r) /\ Apply(r)

\* The scheduler timer's timeout; the wall clock has moved on to now, day.
SchedulerTick ==
    \E now \in Minutes, day \in Days :
        /\ day >= clock.today
        /\ LET r == schedulerTick([Cur EXCEPT !.clock = [now |-> now, today |-> day]]) IN WithinBounds(r) /\ Apply(r)

SetTaskQueue == \E t \in Present, q \in QueueNames \cup {""} : LET r == setTaskQueue(Cur, t, q) IN WithinBounds(r) /\ Apply(r)

CreateQueue == \E q \in QueueNames : LET r == createQueue(Cur, q) IN WithinBounds(r) /\ Apply(r)

RemoveQueue == \E q \in QueueNames : LET r == removeQueue(Cur, q) IN WithinBounds(r) /\ Apply(r)

SetQueueMaxConcurrent ==
    \E q \in QueueNames, v \in 0..MaxConcurrent : LET r == setQueueMaxConcurrent(Cur, q, v) IN WithinBounds(r) /\ Apply(r)

SetQueueScheduleEnabled ==
    \E q \in QueueNames, b \in BOOLEAN : LET r == setQueueScheduleEnabled(Cur, q, b) IN WithinBounds(r) /\ Apply(r)

SetQueueScheduleStartMinutes ==
    \E q \in QueueNames, m \in Minutes : LET r == setQueueScheduleStartMinutes(Cur, q, m) IN WithinBounds(r) /\ Apply(r)

SetQueueScheduleEndMinutes ==
    \E q \in QueueNames, m \in Minutes : LET r == setQueueScheduleEndMinutes(Cur, q, m) IN WithinBounds(r) /\ Apply(r)

SetQueueQuotaEnabled ==
    \E q \in QueueNames, b \in BOOLEAN : LET r == setQueueQuotaEnabled(Cur, q, b) IN WithinBounds(r) /\ Apply(r)

SetQueueQuotaBytes ==
    \E q \in QueueNames, b \in QuotaValues : LET r == setQueueQuotaBytes(Cur, q, b) IN WithinBounds(r) /\ Apply(r)

TransferProgress ==
    \E t \in Present : /\ isRunning(tasks[t])
                       /\ LET r == transferProgress(Cur, t, 1) IN WithinBounds(r) /\ Apply(r)

TransferFinished ==
    \E t \in Present, ok \in BOOLEAN : /\ isRunning(tasks[t])
                                       /\ LET r == transferFinished(Cur, t, ok) IN WithinBounds(r) /\ Apply(r)

TransferMetaData ==
    \E t \in Present : /\ isRunning(tasks[t]) /\ ~tasks[t].etag
                       /\ LET r == transferMetaData(Cur, t) IN WithinBounds(r) /\ Apply(r)

RetryTimerFired ==
    \E t \in TaskIds : /\ timers[t] > 0
                       /\ LET r == retryTimerFired(Cur, t) IN WithinBounds(r) /\ Apply(r)

\* Every operation of the manager.
Next ==
    \/ AddDownload
    \/ AddDownloadAdvancedWithOptions
    \/ AddDownloadAdvancedWithExtras
    \/ PauseTask
    \/ ResumeTask
    \/ TogglePause
    \/ PauseAll
    \/ ResumeAll
    \/ CancelAll
    \/ RemoveDownload
    \/ RetryFailed
    \/ SetMaxConcurrent
    \/ SetPauseOnBattery
    \/ SetResumeOnAC
    \/ UpdatePowerState
    \/ SchedulerTick
    \/ SetTaskQueue
    \/ CreateQueue
    \/ RemoveQueue
    \/ SetQueueMaxConcurrent
    \/ SetQueueScheduleEnabled
    \/ SetQueueScheduleStartMinutes
    \/ SetQueueScheduleEndMinutes
    \/ SetQueueQuotaEnabled
    \/ SetQueueQuotaBytes
    \/ TransferProgress
    \/ TransferMetaData
    \/ TransferFinished
    \/ RetryTimerFired

Spec == Init /\ [][Next]_vars

\* Admission: downloads in named queues, the concurrency limits, the user's
\* pause and resume.
NextAdmission ==
    \/ AddDownloadAdvancedWithOptions
    \/ PauseTask
    \/ ResumeTask
    \/ TogglePause
    \/ PauseAll
    \/ ResumeAll
    \/ SetMaxConcurrent
    \/ SetTaskQueue
    \/ CreateQueue
    \/ RemoveQueue
    \/ SetQueueMaxConcurrent
    \/ TransferFinished

AdmissionSpec == Init /\ [][NextAdmission]_vars

\* Failure handling: mirrors, retries and their timers, bulk cancel.
NextRetry ==
    \/ AddDownloadAdvancedWithExtras
    \/ PauseTask
    \/ ResumeTask
    \/ CancelAll
    \/ RemoveDownload
    \/ RetryFailed
    \/ TransferFinished
    \/ RetryTimerFired

RetrySpec == Init /\ [][NextRetry]_vars

\* The battery policy.
NextPower ==
    \/ AddDownload
    \/ PauseTask
    \/ ResumeTask
    \/ SetPauseOnBattery
    \/ SetResumeOnAC
    \/ UpdatePowerState
    \/ TransferFinished

PowerSpec == Init /\ [][NextPower]_vars

\* The schedule windows of the queues.
NextSchedule ==
    \/ AddDownload
    \/ PauseTask
    \/ ResumeTask
    \/ SchedulerTick
    \/ SetQueueScheduleEnabled
    \/ SetQueueScheduleStartMinutes
    \/ SetQueueScheduleEndMinutes
    \/ TransferFinished

ScheduleSpec == Init /\ [][NextSchedule]_vars

\* The daily quotas of the queues.
NextQuota ==
    \/ AddDownload
    \/ PauseTask
    \/ ResumeTask
    \/ SchedulerTick
    \/ SetQueueQuotaEnabled
    \/ SetQueueQuotaBytes
    \/ TransferProgress
    \/ TransferFinished

QuotaSpec == Init /\ [][NextQuota]_vars

(******************************** admission ********************************)
Downloading == {t \in TaskIds : tasks[t].state = "Downloading"}

DownloadingIn(q) == {t \in Downloading : TaskQueueOf(Cur, t) = q}

QueueLimit(q) ==
    IF queues[q].maxConcurrent > 0 THEN queues[q].maxConcurrent ELSE mgr.m_maxConcurrent

\* C1: at every instant the number of tasks in Downloading is at most the
\* global concurrency limit.
C1_GlobalLimit == Cardinality(Downloading) <= mgr.m_maxConcurrent

\* C2: at every instant, for every queue, the number of its tasks in
\* Downloading is at most the queue's limit (the global one when the queue's
\* is not positive).
C2_QueueLimit ==
    \A q \in DOMAIN queues : Cardinality(DownloadingIn(q)) <= QueueLimit(q)

\* C3: no task is Downloading while pause-on-battery is set and the manager's
\* power snapshot says battery.
C3_NoneOnBattery ==
    (mgr.m_pauseOnBattery /\ mgr.m_onBattery) => Downloading = {}

\* C4: no task is Downloading while its queue is not allowed: outside the
\* queue's enabled schedule window, or with the queue's daily quota used up.
C4_NoneInDisallowedQueue ==
    \A t \in Downloading :
        TaskQueueOf(Cur, t) \in DOMAIN queues
            => isQueueAllowed(queues[TaskQueueOf(Cur, t)], clock.now)


(************************ cancellation and finished ************************)
\* The positions in a trace of the finished signals of task t.
FinishedOf(tr, t) == {i \in DOMAIN tr : tr[i].ev = "finished" /\ tr[i].task = t}

\* Those emitted by t in the Canceled state.
CanceledOf(tr, t) == {i \in FinishedOf(tr, t) : tr[i].state = "Canceled"}

ToastsOf(tr, t) == {i \in DOMAIN tr : tr[i].ev = "toast" /\ tr[i].task = t}

\* C9, as stated: no finished signal is emitted by a task in the Canceled
\* state, and none is emitted while cancelAll is running.
C9_NoFinishedAfterCanceled ==
    \A i \in DOMAIN trace :
        trace[i].ev = "finished" => trace[i].state # "Canceled" /\ ~trace[i].bulk

\* C9, amended: the cancel() that takes a task to Canceled emits
\* finished(false) once, synchronously, with the state already Canceled, and
\* it is the task's last finished signal; a task that was Canceled before a
\* handler ran emits no finished signal in it; the signals emitted while
\* cancelAll is running draw no reaction (no toast) from the manager.
C9_FinishedOnceOnCancel ==
    [][\A t \in TaskIds :
          /\ tasks[t].state = "Canceled" => FinishedOf(trace', t) = {}
          /\ Cardinality(CanceledOf(trace', t)) <= 1
          /\ \A i \in CanceledOf(trace', t) :
                /\ trace'[i].info = "false"
                /\ \A j \in FinishedOf(trace', t) : j <= i
                /\ trace'[i].bulk => ToastsOf(trace', t) = {}
          /\ (tasks[t].state \in {"Idle", "Downloading", "Paused"}
                /\ tasks'[t].state = "Canceled")
             => Cardinality(CanceledOf(trace', t)) = 1]_vars

\* C9's case: a bulk cancel has just canceled a task, whose finished(false)
\* was emitted in the Canceled state.
C9_Witness ==
    \E t \in TaskIds :
        /\ tasks[t].state = "Canceled"
        /\ \E i \in CanceledOf(trace, t) : trace[i].bulk

\* C10: a finished signal that reaches the manager's handler while the bulk
\* flag is set changes nothing of the manager (no toast, no retry, no mirror
\* advance, no admission, no map write), and the flag is false whenever a
\* handler has returned.
C10_BulkCancelIgnoresFinished ==
    /\ ~mgr.m_bulkCancelInProgress
    /\ \A i \in DOMAIN trace : trace[i].bulk => trace[i].ev = "finished"
    /\ \A t \in Present :
          LET s == [Cur EXCEPT !.mgr.m_bulkCancelInProgress = TRUE]
          IN onTaskFinishedWrapper(s, t) = s

\* C10's case: cancelAll has just canceled two tasks, the first while the
\* second was still to be canceled, and both signals met the set flag.
C10_Witness ==
    /\ mgr.m_queue = << >>
    /\ \A t \in TaskIds : tasks[t].state = "Canceled"
                          /\ \E i \in CanceledOf(trace, t) : trace[i].bulk



(*********************** Part II: the state machine ************************)
\* The calls the owner of the task makes in one run.
MaxCommands == 2

CurX == [dt |-> dt, disk |-> disk, trace |-> << >>]

\* The handler's result is committed; n = 1 for a call of the owner and 0
\* for an event of the network or the event loop.
ApplyX(x, n) ==
    /\ dt' = x.dt
    /\ disk' = x.disk
    /\ trace' = x.trace
    /\ commands' = commands + n
    /\ UNCHANGED <<tasks, mgr, queues, clock, timers, remote, stale, wall>>

CanCall == ~dt.crashed /\ commands < MaxCommands

\* What m_throttleTimer.elapsed() may return when a handler reads it.
ElapsedChoices == {0, 1000}

\* The body bytes a readyRead may bring when rem are still to come.
DeliverChoices(rem) ==
    {rem} \cup (IF rem > Chunk THEN {Chunk} ELSE {})
          \cup (IF rem > 1 /\ rem <= SmallTotal THEN {1} ELSE {})

File(size) == [exists |-> TRUE, size |-> size]

CleanDisk == [p \in Paths |-> NoFile]

\* The disk a new task finds, and the disks earlier runs of a restored
\* task may have left: a final file written in place, a ".part", a partial
\* ".part0", a ".part0" of Chunk bytes (the whole first segment of the
\* large file, more than the whole small file), and a stray ".part1".
InitialDisks ==
    {CleanDisk,
     [CleanDisk EXCEPT ![PathMain] = File(1)],
     [CleanDisk EXCEPT ![PathPart] = File(1)],
     [CleanDisk EXCEPT ![SegPath(0)] = File(1)],
     [CleanDisk EXCEPT ![SegPath(0)] = File(Chunk)],
     [CleanDisk EXCEPT ![SegPath(0)] = File(1), ![SegPath(1)] = File(1)]}

\* The Part I variables play no part in Part II.
ManagerIdle ==
    LET r == InitState(1, 0, 0) IN
    /\ tasks = r.tasks
    /\ mgr = r.mgr
    /\ queues = r.queues
    /\ clock = r.clock
    /\ timers = r.timers
    /\ trace = r.trace

\* One task, created (Idle) or restored from the session (Idle or Paused)
\* with the files earlier runs left; the speed limit goes with the small
\* file only.
TaskInit ==
    /\ \E state \in {"Idle", "Paused"}, urlValid \in BOOLEAN,
          segments \in {1, MaxSegments}, useRange \in BOOLEAN,
          useSingleTemp \in BOOLEAN, maxSpeed \in {0, ThrottleSpeed} :
          dt = NewDownloaderTask(state, urlValid, segments, useRange, useSingleTemp,
                                 maxSpeed)
    /\ disk \in InitialDisks
    /\ remote \in {SmallTotal, LargeTotal}
    /\ dt.maxSpeed > 0 => remote = SmallTotal
    /\ dt.segments = 1 => \A i \in SegIndexes : ~disk[SegPath(i)].exists
    /\ commands = 0
    /\ stale = {}
    /\ wall = WallIdle
    /\ ManagerIdle

Start == CanCall /\ dt.state = "Idle" /\ ApplyX(start(CurX), 1)

Pause == CanCall /\ ApplyX(pause(CurX), 1)

PauseWithReason == CanCall /\ ApplyX(pauseWithReason(CurX, "Schedule"), 1)

Resume == CanCall /\ ApplyX(resume(CurX), 1)

Cancel == CanCall /\ ApplyX(cancel(CurX), 1)

Restart == CanCall /\ ApplyX(restart(CurX), 1)

HeadFinished ==
    /\ ~dt.crashed /\ dt.headReply
    /\ \E error \in BOOLEAN, contentLength \in {0, remote}, acceptRanges \in BOOLEAN,
          crash \in BOOLEAN, e \in ElapsedChoices :
          ApplyX(headFinished(CurX, error, contentLength, acceptRanges, crash, e), 0)

\* The status lines the server may answer a GET with, and the body length
\* that goes with each: <<status, expect>>.  from is the first byte asked
\* for and last the last one; ranged tells whether a Range header was sent.
Answers(ranged, from, last) ==
    {<<404, 0>>, <<200, remote>>}
    \cup (IF ranged /\ from <= last /\ last < remote THEN {<<206, last - from + 1>>}
          ELSE {})

SingleMetaData ==
    /\ ~dt.crashed /\ dt.singleReply.live /\ dt.singleReply.status = 0
    /\ \E a \in Answers(dt.singleReply.existing > 0, dt.singleReply.existing, remote - 1),
          crash \in BOOLEAN, e \in ElapsedChoices :
          ApplyX(singleMetaData(CurX, a[1], a[2], crash, e), 0)

SingleReadyRead ==
    /\ ~dt.crashed /\ dt.singleReply.live /\ dt.singleReply.status \in {200, 206}
    /\ dt.singleReply.sent < dt.singleReply.expect
    /\ \E n \in DeliverChoices(dt.singleReply.expect - dt.singleReply.sent),
          e \in ElapsedChoices :
          ApplyX(singleReadyRead(CurX, n, e), 0)

\* The reply ends: without error once the whole body has arrived, with an
\* error at any time.
SingleFinished ==
    /\ ~dt.crashed /\ dt.singleReply.live
    /\ \E error \in BOOLEAN, e \in ElapsedChoices :
          /\ ~error => /\ dt.singleReply.status \in {200, 206}
                       /\ dt.singleReply.sent = dt.singleReply.expect
          /\ ApplyX(singleFinished(CurX, error, e), 0)

SegmentMetaData ==
    /\ ~dt.crashed
    /\ \E i \in 1..Len(dt.segs) :
          /\ dt.segs[i].reply.live /\ dt.segs[i].reply.status = 0
          /\ \E a \in Answers(TRUE, dt.segs[i].start + dt.segs[i].reply.existing,
                              dt.segs[i].end) :
                ApplyX(segmentMetaData(CurX, i, a[1], a[2]), 0)

SegmentReadyRead ==
    /\ ~dt.crashed
    /\ \E i \in 1..Len(dt.segs) :
          /\ dt.segs[i].reply.live /\ dt.segs[i].reply.status \in {200, 206}
          /\ dt.segs[i].reply.sent < dt.segs[i].reply.expect
          /\ \E n \in DeliverChoices(dt.segs[i].reply.expect - dt.segs[i].reply.sent),
                e \in ElapsedChoices :
                ApplyX(segmentReadyRead(CurX, i, n, e), 0)

SegmentFinished ==
    /\ ~dt.crashed
    /\ \E i \in 1..Len(dt.segs), error \in BOOLEAN, e \in ElapsedChoices :
          /\ dt.segs[i].reply.live
          /\ ~error => /\ dt.segs[i].reply.status \in {200, 206}
                       /\ dt.segs[i].reply.sent = dt.segs[i].reply.expect
          /\ ApplyX(segmentFinished(CurX, i, error, e), 0)

TimerFired ==
    /\ ~dt.crashed
    /\ \E tm \in dt.timers, crash \in BOOLEAN, e \in ElapsedChoices :
          ApplyX(timerFired(CurX, tm[1], tm[2], crash, e), 0)

TaskNext ==
    \/ Start
    \/ Pause
    \/ PauseWithReason
    \/ Resume
    \/ Cancel
    \/ Restart
    \/ HeadFinished
    \/ SingleMetaData
    \/ SingleReadyRead
    \/ SingleFinished
    \/ SegmentMetaData
    \/ SegmentReadyRead
    \/ SegmentFinished
    \/ TimerFired

TaskSpec == TaskInit /\ [][TaskNext]_vars

(***************************** Part II: claims *****************************)
TempPaths == Paths \ {PathMain}

\* C5: a task that is Finished without error, its total size known from
\* HEAD, has a final file of exactly that size and no ".part" or ".partN"
\* file left.
C5_DoneFileComplete ==
    (dt.state = "Finished" /\ ~dt.anyError /\ dt.totalSize > 0) =>
        /\ disk[PathMain].exists
        /\ disk[PathMain].size = dt.totalSize
        /\ \A p \in TempPaths : ~disk[p].exists

\* Something of the task is still to happen without a call of the owner: a
\* reply is in flight or one of its timers is pending.
InFlight ==
    \/ dt.headReply
    \/ dt.singleReply.live
    \/ \E i \in 1..Len(dt.segs) : dt.segs[i].reply.live
    \/ dt.timers # {}

\* C6: a task never remains Downloading with no reply in flight; a pending
\* timer of the task counts as in flight here.
C6_DownloadingHasReplyInFlight ==
    (dt.state = "Downloading" /\ ~dt.crashed) => InFlight

\* The transitions the operations other than restart() are said to produce;
\* resume() passes through Idle within the call.
ListedTransitions ==
    {<<"Idle", "Downloading">>, <<"Downloading", "Paused">>,
     <<"Paused", "Downloading">>, <<"Downloading", "Finished">>,
     <<"Idle", "Canceled">>, <<"Downloading", "Canceled">>,
     <<"Paused", "Canceled">>}

\* start() and resume() on a task whose current URL is invalid.
InvalidUrlTransitions == {<<"Idle", "Finished">>, <<"Paused", "Finished">>}

\* C7 as stated: a step that is not a restart() leaves the state unchanged
\* or makes one of the listed transitions.
C7_ListedTransitionsOnly ==
    [][\/ Restart
       \/ dt'.state = dt.state
       \/ <<dt.state, dt'.state>> \in ListedTransitions]_vars

\* C7: a step that is not a restart() leaves the state unchanged, makes one
\* of the listed transitions, or takes a task whose URL is invalid from Idle
\* or Paused to Finished; so Finished and Canceled are left by restart() only.
C7_TransitionsWithInvalidUrl ==
    [][\/ Restart
       \/ dt'.state = dt.state
       \/ <<dt.state, dt'.state>> \in ListedTransitions
       \/ ~dt.urlValid /\ <<dt.state, dt'.state>> \in InvalidUrlTransitions]_vars

\* A task with an invalid URL is terminal after a call that did not emit
\* finished: start() or resume() had finished it and a later call of the
\* owner left it as it was.
C7_Witness ==
    /\ dt.state \in {"Finished", "Canceled"}
    /\ ~dt.urlValid
    /\ commands >= 2
    /\ trace = << >>

\* C8: a Canceled task has no ".part" and no ".partN" file on disk.
C8_CanceledLeavesNoPartFiles ==
    dt.state = "Canceled" => \A p \in TempPaths : ~disk[p].exists

(************************ Part I: claims, continued ************************)
\* Bulk cancel of tasks the power policy has paused.
NextBulkCancel ==
    \/ AddDownload
    \/ PauseTask
    \/ SetPauseOnBattery
    \/ UpdatePowerState
    \/ CancelAll
    \/ TransferFinished

BulkCancelSpec == Init /\ [][NextBulkCancel]_vars

\* The per-task maps of the manager that the model carries.
PerTaskMaps(m) ==
    <<m.m_taskLastReceived, m.m_taskCompletedAt, m.m_taskRetryCount, m.m_taskQueue,
      m.m_taskPausedBySchedule, m.m_taskPausedByQuota, m.m_taskPausedByBattery>>

\* C11: when cancelAll returns, every task that was Idle, Downloading or
\* Paused is Canceled, the task list is empty and every per-task map is
\* empty, pausedByBattery included.
C11_CancelAllClearsEverything ==
    [][CancelAll =>
        /\ \A t \in TaskIds :
              tasks[t].state \in {"Idle", "Downloading", "Paused"}
                  => tasks'[t].state = "Canceled"
        /\ mgr'.m_queue = << >>
        /\ \A i \in 1..Len(PerTaskMaps(mgr')) : DOMAIN PerTaskMaps(mgr')[i] = {}]_vars

(*********************** Part II: claims, continued ************************)
RECURSIVE SumSegLen(_)
\* The sum of the lengths of the segments of a list.
SumSegLen(segs) ==
    IF segs = << >> THEN 0 ELSE SegLen(Head(segs)) + SumSegLen(Tail(segs))

\* C12: while a task is Downloading with a total size T > 0 and N >= 1
\* segments, the ranges are non-empty, ordered and pairwise disjoint, cover
\* exactly [0, T-1], their lengths sum to T, and every segment but the last
\* has length T div N.
C12_SegmentsPartition ==
    (dt.state = "Downloading" /\ dt.totalSize > 0 /\ Len(dt.segs) >= 1) =>
        LET N == Len(dt.segs)
            T == dt.totalSize
        IN /\ dt.segs[1].start = 0
           /\ dt.segs[N].end = T - 1
           /\ \A i \in 1..N : dt.segs[i].start <= dt.segs[i].end
           /\ \A i \in 1..(N - 1) :
                 /\ dt.segs[i + 1].start = dt.segs[i].end + 1
                 /\ SegLen(dt.segs[i]) = T \div N
           /\ \A i, j \in 1..N : i < j => dt.segs[i].end < dt.segs[j].start
           /\ SumSegLen(dt.segs) = T

\* A large file is being fetched in more than one segment, the last one
\* longer than the others.
C12_Witness ==
    /\ dt.state = "Downloading"
    /\ dt.totalSize > 0
    /\ Len(dt.segs) > 1
    /\ SegLen(dt.segs[Len(dt.segs)]) > SegLen(dt.segs[1])
    /\ \E i \in 1..Len(dt.segs) : dt.segs[i].reply.live

\* C13: every segment has 0 <= downloaded <= end - start + 1, and while the
\* task is Downloading or Paused the bytes in its part file are as many as
\* its downloaded count.
C13_SegmentWithinRange ==
    \A i \in 1..Len(dt.segs) :
        /\ 0 <= dt.segs[i].downloaded
        /\ dt.segs[i].downloaded <= SegLen(dt.segs[i])
        /\ (dt.state \in {"Downloading", "Paused"} /\ disk[SegPath(i - 1)].exists)
               => disk[SegPath(i - 1)].size = dt.segs[i].downloaded


\* A new task, ranges on, an empty disk: one start(), then one pause() of
\* the running download and one resume().
PauseResumeInit ==
    /\ \E segments \in {1, MaxSegments} :
          dt = NewDownloaderTask("Idle", TRUE, segments, TRUE, FALSE, 0)
    /\ disk = CleanDisk
    /\ remote \in {SmallTotal, LargeTotal}
    /\ commands = 0
    /\ stale = {}
    /\ wall = WallIdle
    /\ ManagerIdle

StartFresh == ~dt.crashed /\ dt.state = "Idle" /\ ApplyX(start(CurX), 0)

PauseDownloading == CanCall /\ dt.state = "Downloading" /\ ApplyX(pause(CurX), 1)

ResumePaused == CanCall /\ dt.state = "Paused" /\ ApplyX(resume(CurX), 1)

PauseResumeNext ==
    \/ StartFresh
    \/ PauseDownloading
    \/ ResumePaused
    \/ HeadFinished
    \/ SingleMetaData
    \/ SingleReadyRead
    \/ SingleFinished
    \/ SegmentMetaData
    \/ SegmentReadyRead
    \/ SegmentFinished
    \/ TimerFired

PauseResumeSpec == PauseResumeInit /\ [][PauseResumeNext]_vars

\* The download was paused and has been resumed.
Resumed == commands = MaxCommands

\* The HEAD handler took its segmented branch in this step and left
\* segments to fetch.
SegmentsPrepared ==
    /\ HeadFinished
    /\ dt'.totalSize > 0 /\ dt'.useRange /\ dt.segments > 1
    /\ dt'.state = "Downloading"

\* The first half of C14: on resume each segment's count is the size of its
\* part file (at most the segment length) and each incomplete segment is
\* asked for from start + downloaded.
C14_Rederived ==
    [][(Resumed /\ SegmentsPrepared) =>
          \A i \in 1..Len(dt'.segs) :
              /\ disk[SegPath(i - 1)].exists =>
                     dt'.segs[i].downloaded =
                         Min(disk[SegPath(i - 1)].size, SegLen(dt'.segs[i]))
              /\ ~disk[SegPath(i - 1)].exists => dt'.segs[i].downloaded = 0
              /\ dt'.segs[i].downloaded < SegLen(dt'.segs[i]) =>
                     /\ dt'.segs[i].reply.live
                     /\ dt'.segs[i].reply.existing = dt'.segs[i].downloaded
              /\ dt'.segs[i].downloaded >= SegLen(dt'.segs[i]) =>
                     ~dt'.segs[i].reply.live]_vars

\* C14: after pause() and resume() of a segmented download no byte already
\* in a part file is fetched and written again, so that a merge that
\* succeeds leaves a file of exactly total bytes.
C14_NoByteTwice ==
    (Resumed /\ dt.state = "Finished" /\ ~dt.anyError /\ dt.totalSize > 0
     /\ Len(dt.segs) >= 1 /\ dt.useRange) =>
        /\ disk[PathMain].exists
        /\ disk[PathMain].size = dt.totalSize


RECURSIVE SumDownloaded(_)
SumDownloaded(segs) ==
    IF segs = << >> THEN 0 ELSE Head(segs).downloaded + SumDownloaded(Tail(segs))

\* DownloaderTask::totalDownloaded
totalDownloaded(d) == SumDownloaded(d.segs) + d.singleWritten

\* C15: the value of totalDownloaded() never decreases from one observation
\* to the next, whatever happens in between: start, pause, resume, restart,
\* the range-ignored fallback, a resume downgraded to a full download, a
\* resume the server rejects.
C15_TotalDownloadedNeverDecreases ==
    [][totalDownloaded(dt') >= totalDownloaded(dt)]_vars

(************************ Part I: claims, continued ************************)
\* Mirror failover: downloads with mirror lists and retry limits, the
\* validators their replies bring, failures and the retry timers.
NextMirror ==
    \/ AddDownloadAdvancedWithExtras
    \/ PauseTask
    \/ ResumeTask
    \/ TransferMetaData
    \/ TransferFinished
    \/ RetryTimerFired

MirrorSpec == Init /\ [][NextMirror]_vars

\* The positions in a trace of the finished(false) signals t emitted in the
\* Error state.
ErrorsOf(tr, t) ==
    {i \in FinishedOf(tr, t) : tr[i].info = "false" /\ tr[i].state = "Finished"}

HasLaterMirror(tk) == tk.mirrorIndex + 1 < Len(tk.mirrors)

NextMirrorValid(tk) == tk.mirrors[tk.mirrorIndex + 2]

RetryCountOf(m, t) == Value(m.m_taskRetryCount, t, 0)

\* What holds of the mirror index in every step: it never decreases (so
\* never goes back to 0), and a retry attempt is counted only for a task
\* whose current mirror is the last one.
MirrorIndexKept(t) ==
    /\ (tasks[t].state # "Absent" /\ tasks'[t].state # "Deleted") =>
           tasks'[t].mirrorIndex >= tasks[t].mirrorIndex
    /\ RetryCountOf(mgr', t) > RetryCountOf(mgr, t) => ~HasLaterMirror(tasks'[t])

\* The failover itself: one mirror further, validators cleared, the task
\* running again, no retry attempt counted and no retry timer armed.
FailedOver(t) ==
    /\ tasks'[t].mirrorIndex = tasks[t].mirrorIndex + 1
    /\ ~tasks'[t].etag
    /\ tasks'[t].state = "Downloading"
    /\ RetryCountOf(mgr', t) = RetryCountOf(mgr, t)
    /\ timers'[t] = timers[t]

C17_RetriesWithinMax ==
    \A t \in Present : tasks[t].retries <= MaxRetriesOf(Cur, t)

\* The rest of C17, step by step: a retry is armed only with attempts below
\* the limit and counts as one attempt; at the limit a further error leaves
\* the task in Error with nothing armed; a timer that fires restarts the
\* task only if it was in Error.
C17_RetrySteps ==
    [][\A t \in TaskIds :
          /\ (timers'[t] > timers[t]) =>
                /\ RetryCountOf(mgr, t) < MaxRetriesOf(Cur, t)
                /\ RetryCountOf(mgr', t) = RetryCountOf(mgr, t) + 1
                /\ timers'[t] = timers[t] + 1
          /\ (ErrorsOf(trace', t) # {} /\ t \in Present /\ ~HasLaterMirror(tasks[t])
              /\ RetryCountOf(mgr, t) >= MaxRetriesOf(Cur, t)) =>
                /\ stateString(tasks'[t]) = "Error"
                /\ timers'[t] <= timers[t]
          /\ (RetryTimerFired /\ timers'[t] < timers[t]
              /\ stateString(tasks[t]) # "Error") => tasks'[t] = tasks[t]]_vars

\* The battery policy next to failures, their delayed retries and a bulk
\* cancel.
NextPowerBulk ==
    \/ AddDownload
    \/ SetPauseOnBattery
    \/ SetResumeOnAC
    \/ UpdatePowerState
    \/ CancelAll
    \/ TransferFinished
    \/ RetryTimerFired

PowerBulkSpec == Init /\ [][NextPowerBulk]_vars

\* Paused by the battery policy.
PausedByBattery(t) == tasks[t].state = "Paused" /\ tasks[t].pauseReason = "Battery"

QueueAllowedAfter(t) ==
    /\ TaskQueueOf(Cur, t) \in DOMAIN queues'
    /\ isQueueAllowed(queues'[TaskQueueOf(Cur, t)], clock'.now)

\* C18: with pause-on-battery set, a change of the power snapshot to
\* battery pauses every Downloading task with reason "Battery" in the pass
\* it triggers; with resume-on-AC set too, the change back to AC resumes
\* every task so paused whose queue is allowed, in the pass it triggers;
\* with resume-on-AC off such a task stays Paused.
C18_BatteryPauseAndResume ==
    [][(mgr.m_pauseOnBattery /\ mgr'.m_pauseOnBattery
        /\ mgr'.m_resumeOnAC = mgr.m_resumeOnAC
        /\ mgr'.m_onBattery # mgr.m_onBattery) =>
          \A t \in Present :
              /\ (mgr.m_resumeOnAC /\ mgr'.m_onBattery /\ tasks[t].state = "Downloading") =>
                    /\ tasks'[t].state = "Paused"
                    /\ tasks'[t].pauseReason = "Battery"
              /\ (mgr.m_resumeOnAC /\ ~mgr'.m_onBattery /\ PausedByBattery(t)
                  /\ QueueAllowedAfter(t)) =>
                    tasks'[t].state = "Downloading"
              /\ (~mgr.m_resumeOnAC /\ ~mgr'.m_onBattery /\ PausedByBattery(t)) =>
                    /\ tasks'[t].state = "Paused"
                    /\ tasks'[t].pauseReason = "Battery"]_vars

\* The quota policy next to failures, their delayed retries and a bulk
\* cancel.
NextQuotaBulk ==
    \/ AddDownload
    \/ SetQueueQuotaEnabled
    \/ SetQueueQuotaBytes
    \/ CancelAll
    \/ TransferProgress
    \/ TransferFinished
    \/ RetryTimerFired

QuotaBulkSpec == Init /\ [][NextQuotaBulk]_vars

\* A progress event has raised q's count for the day to its quota or above.
QuotaFilledNow(q) ==
    /\ q \in DOMAIN queues'
    /\ queues'[q].downloadedToday > queues[q].downloadedToday
    /\ QuotaReached(queues'[q])

\* C19: when a progress event raises the downloadedToday of a queue with a
\* quota to the quota or above, every Downloading task of the queue is
\* Paused with reason "Quota" and marked paused-by-quota when the handling
\* of the event returns; downloadedToday grows only in a progress event, by
\* the task's delta since its last report.
C19_QuotaFilledPausesQueue ==
    [][\A q \in DOMAIN queues :
          /\ QuotaFilledNow(q) =>
                \A t \in Present :
                    (tasks[t].state = "Downloading" /\ TaskQueueOf(Cur, t) = q) =>
                        /\ tasks'[t].state = "Paused"
                        /\ tasks'[t].pauseReason = "Quota"
                        /\ Value(mgr'.m_taskPausedByQuota, t, FALSE)
          /\ (q \in DOMAIN queues'
              /\ queues'[q].downloadedToday > queues[q].downloadedToday) =>
                \E t \in Present :
                    /\ tasks[t].state = "Downloading" /\ TaskQueueOf(Cur, t) = q
                    /\ tasks'[t].downloaded > tasks[t].downloaded
                    /\ queues'[q].downloadedToday - queues[q].downloadedToday
                         = tasks'[t].downloaded - Value(mgr.m_taskLastReceived, t, 0)]_vars

(**************************** the day's reset *******************************)
\* The daily quotas together with the battery policy.
NextDayReset ==
    \/ AddDownload
    \/ ResumeTask
    \/ SchedulerTick
    \/ SetPauseOnBattery
    \/ SetResumeOnAC
    \/ UpdatePowerState
    \/ TransferProgress

\* The manager after its constructor and the owner's setQueueQuotaEnabled
\* and setQueueQuotaBytes on the default queue.
DayResetInit ==
    \E mc \in 1..MaxConcurrent, bytes \in QuotaValues \ {0} :
        LET r == setQueueQuotaBytes(
                     setQueueQuotaEnabled(InitState(mc, 0, 0), General, TRUE),
                     General, bytes) IN
        /\ tasks = r.tasks
        /\ mgr = r.mgr
        /\ queues = r.queues
        /\ clock = r.clock
        /\ timers = r.timers
        /\ trace = r.trace
        /\ dt = NewDownloaderTask("Idle", TRUE, 1, TRUE, TRUE, 0)
        /\ disk = [p \in Paths |-> NoFile]
        /\ remote = SmallTotal
        /\ commands = 0
        /\ stale = {}
        /\ wall = WallIdle

DayResetSpec == DayResetInit /\ [][NextDayReset]_vars

\* The task's last pause was the quota's.
PausedByQuota(t) ==
    /\ tasks[t].state = "Paused"
    /\ tasks[t].pauseReason = "Quota"
    /\ Value(mgr.m_taskPausedByQuota, t, FALSE)

\* After the step q is neither outside its schedule nor held by the battery.
NotBlockedAfter(q) ==
    /\ ~(queues'[q].scheduleEnabled /\ ~isWithinSchedule(queues'[q], clock'.now))
    /\ ~(mgr'.m_pauseOnBattery /\ mgr'.m_onBattery)

\* A scheduler tick that finds q's last reset on another day than today.
FirstPassOfDay(q) == SchedulerTick /\ queues[q].lastResetDate # clock'.today

\* C20: the first enforcement pass on a day other than a queue's
\* lastResetDate sets the queue's downloadedToday to 0 and its lastResetDate
\* to today, and in that pass resumes every task of the queue that the quota
\* had paused, unless the schedule or the battery holds the queue.
C20_DayResetResumes ==
    [][\A q \in DOMAIN queues :
          FirstPassOfDay(q) =>
              /\ q \in DOMAIN queues'
              /\ queues'[q].downloadedToday = 0
              /\ queues'[q].lastResetDate = clock'.today
              /\ \A t \in Present :
                    (PausedByQuota(t) /\ TaskQueueOf(Cur, t) = q /\ NotBlockedAfter(q)) =>
                        tasks'[t].state = "Downloading"]_vars

(***************************************************************************)
(* The session: saveSession writes the manager's settings, queues and rows *)
(* to downloads.json, and the constructor of the next run reads them back  *)
(* with loadSession.  A session file is the record                         *)
(* [maxConcurrent, globalMaxSpeed, pauseOnBattery, resumeOnAC, queues,     *)
(* items].                                                                 *)
(***************************************************************************)
RECURSIVE saveItems(_, _)
RECURSIVE loadQueues(_, _)
RECURSIVE loadItems(_, _, _)

\* DownloaderTask::markError()
TaskMarkError(s, t) ==
    LET tk == s.tasks[t] IN
    IF tk.state = "Finished" /\ tk.anyError THEN s
    ELSE IF tk.state = "Canceled" THEN s
    ELSE [s EXCEPT !.tasks[t].anyError = TRUE,
                   !.tasks[t].state = "Finished",
                   !.tasks[t].pauseReason = ""]

\* DownloaderTask::markDone()
TaskMarkDone(s, t) ==
    LET tk == s.tasks[t] IN
    IF tk.state = "Finished" /\ ~tk.anyError THEN s
    ELSE IF tk.state = "Canceled" THEN s
    ELSE [s EXCEPT !.tasks[t].anyError = FALSE,
                   !.tasks[t].state = "Finished",
                   !.tasks[t].pauseReason = ""]

\* DownloaderTask::markCanceled()
TaskMarkCanceled(s, t) ==
    IF s.tasks[t].state = "Canceled" THEN s
    ELSE [s EXCEPT !.tasks[t].state = "Canceled", !.tasks[t].pauseReason = ""]

\* DownloaderTask::setMirrorUrls
TaskSetMirrorUrls(s, t, urls) ==
    IF s.tasks[t].mirrors = urls THEN s
    ELSE [s EXCEPT !.tasks[t].mirrors = urls,
                   !.tasks[t].mirrorIndex = IF Len(urls) > 0 THEN 0 ELSE @]

\* DownloaderTask::setMirrorIndex
TaskSetMirrorIndex(s, t, index) ==
    [s EXCEPT !.tasks[t].mirrorIndex = IF index < 0 THEN 0 ELSE index]

\* The object saveSession writes for the row of task t.  onDisk is not in
\* the file: it is what utils::bytesReceivedOnDisk finds beside the file
\* path when the session is read.
saveItem(s, t) ==
    [state |-> stateString(s.tasks[t]),
     queueName |-> TaskQueueOf(s, t),
     taskMaxSpeed |-> Value(s.mgr.m_taskMaxSpeed, t, 0),
     bytesReceived |-> Value(s.mgr.m_taskLastReceived, t, 0),
     pauseReason |-> s.tasks[t].pauseReason,
     completedAt |-> Value(s.mgr.m_taskCompletedAt, t, 0),
     etag |-> s.tasks[t].etag,
     mirrors |-> s.tasks[t].mirrors,
     mirrorIndex |-> s.tasks[t].mirrorIndex,
     retryMax |-> s.tasks[t].retryMax,
     onDisk |-> s.tasks[t].downloaded]

saveItems(s, i) ==
    IF i > Len(s.mgr.model) THEN << >>
    ELSE <<saveItem(s, s.mgr.model[i].task)>> \o saveItems(s, i + 1)

\* DownloadManager::saveSession
saveSession(s) ==
    [maxConcurrent |-> s.mgr.m_maxConcurrent,
     globalMaxSpeed |-> s.mgr.m_globalMaxSpeed,
     pauseOnBattery |-> s.mgr.m_pauseOnBattery,
     resumeOnAC |-> s.mgr.m_resumeOnAC,
     queues |-> [i \in 1..Len(SelectSeq(s.mgr.m_queueOrder, LAMBDA q : q \in DOMAIN s.queues)) |->
                    s.queues[SelectSeq(s.mgr.m_queueOrder, LAMBDA q : q \in DOMAIN s.queues)[i]]],
     items |-> saveItems(s, 1)]

\* A restore that reads no queue.
loadQueuesNone(s, qs) == s

\* The queue loop of loadSession: a later object of the same name replaces
\* the earlier one in m_queues and is appended to m_queueOrder again.
loadQueues(s, qs) ==
    IF qs = << >> THEN s
    ELSE LET info == Head(qs) IN
         IF info.name = "" THEN loadQueues(s, Tail(qs))
         ELSE loadQueues([s EXCEPT !.queues = Put(@, info.name, info),
                                   !.mgr.m_queueOrder = Append(@, info.name)],
                         Tail(qs))

\* DownloadManager::ensureDefaultQueue
ensureDefaultQueue(s) ==
    IF Len(s.mgr.m_queueOrder) = 0
    THEN [s EXCEPT !.queues = Put(@, General, NewQueueInfo(s, General)),
                   !.mgr.m_queueOrder = <<General>>]
    ELSE s

\* A restore that leaves every task as createTask made it.
markPersistedNone(s, t, state) == s

\* The mark* call loadSession makes for the persisted state.
markPersisted(s, t, state) ==
    CASE state = "Paused" -> TaskMarkPaused(s, t)
      [] state = "Error" -> TaskMarkError(s, t)
      [] state = "Done" -> TaskMarkDone(s, t)
      [] state = "Canceled" -> TaskMarkCanceled(s, t)
      [] OTHER -> s

\* The body of the item loop of loadSession for the object it, restored as
\* task t.
loadItem(s, t, it) ==
    LET s1 == createTask(s, t, it.queueName, << >>, -1)
        s2 == TaskSetMirrorIndex(
                  TaskSetMirrorUrls(s1, t, IF it.mirrors = << >> THEN <<TRUE>> ELSE it.mirrors),
                  t, it.mirrorIndex)
        s3 == IF it.retryMax >= 0 THEN [s2 EXCEPT !.tasks[t].retryMax = it.retryMax] ELSE s2
        s4 == IF it.taskMaxSpeed > 0
              THEN applyTaskSpeed([s3 EXCEPT !.mgr.m_taskMaxSpeed = Put(@, t, it.taskMaxSpeed)], t)
              ELSE s3
        s5 == markPersisted(s4, t, it.state)
        received == IF it.bytesReceived > 0 THEN it.bytesReceived ELSE it.onDisk
    IN [s5 EXCEPT
          !.mgr.m_taskLastReceived = Put(@, t, received),
          !.mgr.m_taskCompletedAt = IF it.completedAt > 0 THEN Put(@, t, it.completedAt) ELSE @,
          !.tasks[t].pauseReason = it.pauseReason,
          !.tasks[t].etag = it.etag,
          !.tasks[t].downloaded = it.onDisk,
          !.mgr.model = [i \in 1..Len(@) |->
                            IF @[i].task = t /\ it.state \in {"Done", "Canceled", "Error"}
                            THEN [@[i] EXCEPT !.finished = TRUE] ELSE @[i]]]

loadItems(s, items, t) ==
    IF items = << >> THEN s
    ELSE loadItems(loadItem(s, t, Head(items)), Tail(items), t + 1)

\* emit domainRulesChanged(), which the model has at the end of loadSession
\* only.
SigDomainRulesChanged(s) ==
    [ev |-> "domainRulesChanged", task |-> 0, info |-> "", state |-> "",
     bulk |-> s.mgr.m_bulkCancelInProgress]

\* DownloadManager::loadSession of the file f up to the end of the item
\* loop; the power monitor answers probe.
loadSessionItems(s, f, probe) ==
    LET s1 == setResumeOnAC(
                  setPauseOnBattery(
                      setGlobalMaxSpeed(setMaxConcurrent(s, f.maxConcurrent), f.globalMaxSpeed),
                      f.pauseOnBattery, probe),
                  f.resumeOnAC)
        s2 == [s1 EXCEPT !.queues = EmptyMap, !.mgr.m_queueOrder = << >>]
        s3 == ensureDefaultQueue(loadQueues(s2, f.queues))
    IN loadItems(s3, f.items, 1)

\* The signals and the admission pass that end loadSession.
endLoadSession(s) == startQueued(Emit(s, SigDomainRulesChanged(s)))

\* DownloadManager::loadSession
loadSession(s, f, probe) == endLoadSession(loadSessionItems(s, f, probe))

\* The manager of the next run before its constructor body runs.
freshManager(s) ==
    [InitState(s.mgr.m_maxConcurrent, s.mgr.m_autoRetryMax, s.clock.now)
        EXCEPT !.clock = s.clock]

\* The constructor of the next run over the file f:
\* ensureDefaultQueue, loadSession, schedulerTick, updatePowerState.
nextRun(s, f, probe) ==
    updatePowerState(schedulerTick(loadSession(freshManager(s), f, probe)), probe)

\* The application quits (aboutToQuit: saveSession) and is launched again.
Relaunch ==
    \E probe \in BOOLEAN :
        LET r == nextRun(Cur, saveSession(Cur), probe) IN WithinBounds(r) /\ Apply(r)

SpeedValues == {-1, 0, 1, 2}

RenameQueue ==
    \E q \in QueueNames, n \in QueueNames \cup {"", " Q2 "} :
        LET r == renameQueue(Cur, q, n) IN WithinBounds(r) /\ Apply(r)

SetGlobalMaxSpeed == \E v \in SpeedValues : LET r == setGlobalMaxSpeed(Cur, v) IN WithinBounds(r) /\ Apply(r)

SetQueueMaxSpeed ==
    \E q \in QueueNames, v \in SpeedValues : LET r == setQueueMaxSpeed(Cur, q, v) IN WithinBounds(r) /\ Apply(r)

SetTaskMaxSpeed ==
    \E t \in Present, v \in SpeedValues : LET r == setTaskMaxSpeed(Cur, t, v) IN WithinBounds(r) /\ Apply(r)

(******************************* the queues ********************************)
\* addDownloadAdvanced(url, path, queueName, category): the
\* queue name is the caller's text as it is.
AddDownloadAdvanced ==
    /\ Unused # {}
    /\ \E q \in QueueNames \cup {"", " Q2 "} :
          LET r == addDownloadInternal(Cur, NewTask, q, << >>, -1, FALSE) IN WithinBounds(r) /\ Apply(r)

NextQueues ==
    \/ AddDownloadAdvanced
    \/ AddDownloadAdvancedWithOptions
    \/ CreateQueue
    \/ RemoveQueue
    \/ RenameQueue
    \/ SetTaskQueue
    \/ TransferFinished
    \/ Relaunch

QueuesSpec == Init /\ [][NextQueues]_vars

\* No name occurs twice in the sequence.
Distinct(seq) == \A i, j \in 1..Len(seq) : seq[i] = seq[j] => i = j

\* C21: after construction and after any sequence of createQueue,
\* removeQueue, renameQueue, loadSession and addDownload there is at least
\* one queue, the queue names are pairwise distinct, m_queueOrder and
\* m_queues hold exactly the same names, the default queue is the first of
\* the order, and removeQueue of the default queue's name changes nothing.
C21_QueuesConsistent ==
    /\ DOMAIN queues # {}
    /\ Distinct(mgr.m_queueOrder)
    /\ {mgr.m_queueOrder[i] : i \in 1..Len(mgr.m_queueOrder)} = DOMAIN queues
    /\ \A q \in DOMAIN queues : queues[q].name = q
    /\ Len(mgr.m_queueOrder) > 0 /\ defaultQueueName(Cur) = mgr.m_queueOrder[1]
    /\ removeQueue(Cur, defaultQueueName(Cur)) = Cur

\* The default queue was renamed, another queue was created after it and
\* holds a restored or added task.
C21_Witness ==
    /\ mgr.m_queueOrder = <<"Q2", General>>
    /\ \E t \in Present : TaskQueueOf(Cur, t) = General /\ tasks[t].state = "Finished"

(************************** removal of a queue *****************************)
NextRemoveQueue ==
    \/ AddDownloadAdvanced
    \/ CreateQueue
    \/ RemoveQueue
    \/ SetTaskQueue
    \/ SetQueueMaxSpeed
    \/ SetQueueMaxConcurrent
    \/ TransferFinished

RemoveQueueSpec == Init /\ [][NextRemoveQueue]_vars

\* The manager after the step.
After == [tasks |-> tasks', mgr |-> mgr', queues |-> queues', clock |-> clock',
          timers |-> timers', trace |-> << >>]

\* The limits that count for task t in s: the strictly positive ones among
\* the global limit, the limit of the task's queue and the task's own.
PositiveLimits(s, t) ==
    {v \in {s.mgr.m_globalMaxSpeed,
            queueInfo(s, TaskQueueOf(s, t)).maxSpeed,
            Value(s.mgr.m_taskMaxSpeed, t, 0)} : v > 0}

\* Their minimum, 0 when there is none.
EffectiveMaxSpeed(s, t) ==
    IF PositiveLimits(s, t) = {} THEN 0
    ELSE CHOOSE v \in PositiveLimits(s, t) : \A w \in PositiveLimits(s, t) : v <= w

\* The step is the call removeQueue(q) on an existing queue other than the
\* default one.
RemoveQueueStep(q) ==
    /\ q \in DOMAIN queues
    /\ q # defaultQueueName(Cur)
    /\ Apply(removeQueue(Cur, q))

\* C22: removeQueue(q) of an existing queue other than the default moves
\* every task of q to the default queue and applies its effective speed
\* limit again, removes q, and leaves the queue of every other task and the
\* settings of every other queue as they were.
C22_RemoveQueueFrame ==
    [][\A q \in QueueNames :
          RemoveQueueStep(q) =>
              /\ DOMAIN queues' = (DOMAIN queues) \ {q}
              /\ mgr'.m_queueOrder = SelectSeq(mgr.m_queueOrder, LAMBDA n : n # q)
              /\ \A n \in (DOMAIN queues) \ {q} : queues'[n] = queues[n]
              /\ \A t \in Present :
                    IF TaskQueueOf(Cur, t) = q
                    THEN /\ TaskQueueOf(After, t) = defaultQueueName(Cur)
                         /\ tasks'[t].maxSpeed = EffectiveMaxSpeed(After, t)
                    ELSE TaskQueueOf(After, t) = TaskQueueOf(Cur, t)]_vars

(*************************** renaming a queue ******************************)
RenameInputs == QueueNames \cup {"", " Q2 "}

\* renameQueue(old, new) is called with arguments it accepts.
RenameAccepted(old, new) ==
    /\ old \in DOMAIN queues
    /\ Trimmed(new) # ""
    /\ Trimmed(new) \notin DOMAIN queues

\* C23: renameQueue(old, new) with old a queue and the trimmed new name
\* non-empty and not a queue puts new in old's place in the order, keeps
\* the queue's settings and moves every task of old to new, so that no task
\* refers to old afterwards; with any other arguments it changes nothing.
C23_RenameQueue ==
    [][\A old \in QueueNames, new \in RenameInputs :
          Apply(renameQueue(Cur, old, new)) =>
              IF RenameAccepted(old, new)
              THEN /\ Len(mgr'.m_queueOrder) = Len(mgr.m_queueOrder)
                   /\ \A i \in 1..Len(mgr.m_queueOrder) :
                         mgr'.m_queueOrder[i] = IF mgr.m_queueOrder[i] = old THEN Trimmed(new)
                                                ELSE mgr.m_queueOrder[i]
                   /\ DOMAIN queues' = ((DOMAIN queues) \ {old}) \cup {Trimmed(new)}
                   /\ queues'[Trimmed(new)] = [queues[old] EXCEPT !.name = Trimmed(new)]
                   /\ \A n \in (DOMAIN queues) \ {old} : queues'[n] = queues[n]
                   /\ \A t \in Present :
                         /\ TaskQueueOf(After, t) # old
                         /\ TaskQueueOf(After, t) =
                               IF TaskQueueOf(Cur, t) = old THEN Trimmed(new)
                               ELSE TaskQueueOf(Cur, t)
              ELSE UNCHANGED <<tasks, mgr, queues, clock, timers>>]_vars

\* The default queue has been renamed while a task was in it.
C23_Witness ==
    /\ General \notin DOMAIN queues
    /\ mgr.m_queueOrder[1] = "Q2"
    /\ \E t \in Present : TaskQueueOf(Cur, t) = "Q2" /\ tasks[t].state = "Downloading"

(**************************** the speed limits *****************************)
NextSpeed ==
    \/ AddDownloadAdvancedWithOptions
    \/ SetGlobalMaxSpeed
    \/ SetQueueMaxSpeed
    \/ SetTaskMaxSpeed
    \/ SetTaskQueue
    \/ RemoveQueue
    \/ RenameQueue

SpeedSpec == Init /\ [][NextSpeed]_vars

\* C24: after any sequence of setGlobalMaxSpeed, setQueueMaxSpeed,
\* setTaskMaxSpeed, setTaskQueue, removeQueue, renameQueue and task
\* creation, the max speed applied to each task is the minimum of the
\* strictly positive values among the global limit, its queue's limit and
\* its own limit, and 0 (unlimited) when all three are 0.
C24_EffectiveMaxSpeed ==
    \A t \in Present : tasks[t].maxSpeed = EffectiveMaxSpeed(Cur, t)

\* A task of the renamed default queue whose queue's limit is below the
\* global limit and its own.
C24_Witness ==
    \E t \in Present :
        /\ mgr.m_globalMaxSpeed = 2
        /\ queueInfo(Cur, TaskQueueOf(Cur, t)).maxSpeed = 1
        /\ Value(mgr.m_taskMaxSpeed, t, 0) = 2
        /\ TaskQueueOf(Cur, t) = "Q2"
        /\ General \notin DOMAIN queues

(************************* the throttle against time ************************)
\* The limit of the throttled task, in bytes per second.
ThrottleLimit == 4

\* The time between two moments at which the event loop runs handlers.
TickMs == 250

\* The run is followed for this long.
MaxNow == 2000

\* The length of the throttle window in ms.
ThrottleWindowMs == 1000

\* The file of the throttled task: three seconds' worth of the limit.
ThrottleTotal == 3 * ThrottleLimit

\* What m_throttleTimer.elapsed() returns now.
ThrottleElapsed == wall.now - wall.started

\* The body bytes the task has written since start().
Written(d) == d.singleWritten + SumDownloaded(d.segs)

\* A handler's result is committed at the present moment: what it wrote is
\* logged, and the throttle timer restarts where the handler zeroes
\* m_throttleBytes (start(), and a write in a window that is 1000 ms old).
ApplyTimed(x, started) ==
    LET n == Written(x.dt) - Written(dt)
        restarted == \/ started
                     \/ /\ x.dt.throttleBytes = 0
                        /\ \/ dt.throttleBytes # 0
                           \/ n > 0 /\ ThrottleElapsed >= ThrottleWindowMs
    IN /\ dt' = x.dt
       /\ disk' = x.disk
       /\ trace' = x.trace
       /\ wall' = [wall EXCEPT !.started = IF restarted THEN wall.now ELSE @,
                               !.log = IF n > 0 THEN Append(@, <<wall.now, n>>) ELSE @]
       /\ UNCHANGED <<tasks, mgr, queues, clock, timers, remote, commands, stale>>

\* One task with a speed limit on a clean disk: single-stream on the small
\* file, segmented on the file large enough to be split.
ThrottleInit ==
    /\ \E segments \in {1, MaxSegments} :
          /\ dt = NewDownloaderTask("Idle", TRUE, segments, TRUE, FALSE, ThrottleLimit)
          /\ remote = IF segments = 1 THEN ThrottleTotal ELSE LargeTotal
    /\ disk = CleanDisk
    /\ commands = 0
    /\ stale = {}
    /\ wall = WallIdle
    /\ ManagerIdle

\* Time passes while the download runs; the writes older than one second
\* leave the log.
Advance ==
    /\ ~dt.crashed /\ dt.state = "Downloading"
    /\ wall.now + TickMs <= MaxNow
    /\ wall' = [wall EXCEPT
                   !.now = @ + TickMs,
                   !.log = SelectSeq(@, LAMBDA w :
                               w[1] > wall.now + TickMs - ThrottleWindowMs)]
    /\ UNCHANGED <<tasks, mgr, queues, clock, timers, trace, dt, disk, remote, commands, stale>>

ThrottledStart == ~dt.crashed /\ dt.state = "Idle" /\ ApplyTimed(start(CurX), TRUE)

\* The server answers the HEAD with the size of the file.
ThrottledHeadFinished ==
    /\ ~dt.crashed /\ dt.headReply
    /\ \E acceptRanges \in BOOLEAN, crash \in BOOLEAN :
          ApplyTimed(headFinished(CurX, FALSE, remote, acceptRanges, crash,
                                  ThrottleElapsed), FALSE)

\* The server answers every GET with the body asked for.
ThrottledSingleMetaData ==
    /\ ~dt.crashed /\ dt.singleReply.live /\ dt.singleReply.status = 0
    /\ \E a \in Answers(dt.singleReply.existing > 0, dt.singleReply.existing, remote - 1),
          crash \in BOOLEAN :
          /\ a[1] # 404
          /\ ApplyTimed(singleMetaData(CurX, a[1], a[2], crash, ThrottleElapsed), FALSE)

\* A readyRead brings all that is still to come or, when nothing is waiting
\* in the buffer, one byte.
ThrottledSingleReadyRead ==
    /\ ~dt.crashed /\ dt.singleReply.live /\ dt.singleReply.status \in {200, 206}
    /\ dt.singleReply.sent < dt.singleReply.expect
    /\ \E n \in {1, dt.singleReply.expect - dt.singleReply.sent} :
          /\ n = 1 => dt.singleBuffer = 0
          /\ ApplyTimed(singleReadyRead(CurX, n, ThrottleElapsed), FALSE)

ThrottledSingleFinished ==
    /\ ~dt.crashed /\ dt.singleReply.live
    /\ dt.singleReply.status \in {200, 206}
    /\ dt.singleReply.sent = dt.singleReply.expect
    /\ ApplyTimed(singleFinished(CurX, FALSE, ThrottleElapsed), FALSE)

ThrottledSegmentMetaData ==
    /\ ~dt.crashed
    /\ \E i \in 1..Len(dt.segs) :
          /\ dt.segs[i].reply.live /\ dt.segs[i].reply.status = 0
          /\ \E a \in Answers(TRUE, dt.segs[i].start + dt.segs[i].reply.existing,
                              dt.segs[i].end) :
                /\ a[1] = 206
                /\ ApplyTimed(segmentMetaData(CurX, i, a[1], a[2]), FALSE)

ThrottledSegmentReadyRead ==
    /\ ~dt.crashed
    /\ \E i \in 1..Len(dt.segs) :
          /\ dt.segs[i].reply.live /\ dt.segs[i].reply.status \in {200, 206}
          /\ dt.segs[i].reply.sent < dt.segs[i].reply.expect
          /\ \E n \in {1, dt.segs[i].reply.expect - dt.segs[i].reply.sent} :
                /\ n = 1 => dt.segs[i].buffer = 0
                /\ ApplyTimed(segmentReadyRead(CurX, i, n, ThrottleElapsed), FALSE)

ThrottledSegmentFinished ==
    /\ ~dt.crashed
    /\ \E i \in 1..Len(dt.segs) :
          /\ dt.segs[i].reply.live
          /\ dt.segs[i].reply.status \in {200, 206}
          /\ dt.segs[i].reply.sent = dt.segs[i].reply.expect
          /\ ApplyTimed(segmentFinished(CurX, i, FALSE, ThrottleElapsed), FALSE)

\* A 50 ms or 10 ms throttle retry fires.
ThrottledTimerFired ==
    /\ ~dt.crashed
    /\ \E tm \in dt.timers, crash \in BOOLEAN :
          ApplyTimed(timerFired(CurX, tm[1], tm[2], crash, ThrottleElapsed), FALSE)

NextThrottle ==
    \/ ThrottledStart
    \/ ThrottledHeadFinished
    \/ ThrottledSingleMetaData
    \/ ThrottledSingleReadyRead
    \/ ThrottledSingleFinished
    \/ ThrottledSegmentMetaData
    \/ ThrottledSegmentReadyRead
    \/ ThrottledSegmentFinished
    \/ ThrottledTimerFired
    \/ Advance

ThrottleSpec == ThrottleInit /\ [][NextThrottle]_vars

RECURSIVE LoggedBytes(_)
\* The bytes of the writes of a log.
LoggedBytes(log) ==
    IF log = << >> THEN 0 ELSE log[1][2] + LoggedBytes(Tail(log))

RECURSIVE LargestWrite(_)
\* The size of the largest write of a log.
LargestWrite(log) ==
    IF log = << >> THEN 0
    ELSE LET m == LargestWrite(Tail(log)) IN IF log[1][2] > m THEN log[1][2] ELSE m

\* C25 as stated: the bytes a task with effective max speed M > 0 writes in
\* any 1-second interval are at most M plus the size of one write.  The log
\* holds the writes of the second that ends now.
C25_OneSecondBound ==
    dt.maxSpeed > 0 =>
        LoggedBytes(wall.log) <= dt.maxSpeed + LargestWrite(wall.log)

\* C25 as the code has it: the allowance of a window grows with its age and
\* what was not used is kept.  Within one throttle window the bytes written
\* before the write that restarts it are at most M; a burst late in one
\* window and the allowance of the next can fall into one second, so the
\* bytes of any 1-second interval of one start() cycle are at most twice M
\* plus the size of one write.
C25_TwoWindowBound ==
    dt.maxSpeed > 0 =>
        /\ dt.throttleBytes <= dt.maxSpeed
        /\ LoggedBytes(wall.log) <= 2 * dt.maxSpeed + LargestWrite(wall.log)

\* More than M bytes were written in one second, in writes smaller than M,
\* after an idle gap let the window grow older than 1000 ms.
C25_Witness ==
    /\ dt.maxSpeed > 0
    /\ LoggedBytes(wall.log) > dt.maxSpeed
    /\ LargestWrite(wall.log) < dt.maxSpeed
    /\ Len(wall.log) >= 2
    /\ wall.now >= ThrottleWindowMs + TickMs

(************************** restore of the session **************************)
NextSession ==
    \/ AddDownload
    \/ PauseTask
    \/ CancelAll
    \/ SetPauseOnBattery
    \/ TransferFinished
    \/ Relaunch

SessionSpec == Init /\ [][NextSession]_vars

\* The states loadSession marks a task with.
MarkedStates == {"Paused", "Done", "Error", "Canceled"}

\* A signal of task t that tells of a start or of an end.
StartedOrFinished(r, t) ==
    \E k \in 1..Len(r.trace) :
        r.trace[k].task = t /\ r.trace[k].ev \in {"finished", "toast"}

\* C26: whatever session the manager saves, loadSession in the next run
\* leaves a task persisted as Paused, Done, Error or Canceled in exactly
\* that state, its admission pass does not start it and emits no finished
\* signal for it; a task persisted as Active or Queued is Idle when the
\* admission pass begins and is started or left by that pass alone.
C26_RestoredStates ==
    \A probe \in BOOLEAN :
        LET f == saveSession(Cur)
            pre == loadSessionItems(freshManager(Cur), f, probe)
            r == loadSession(freshManager(Cur), f, probe)
        IN \A i \in 1..Len(f.items) :
              /\ f.items[i].state \in MarkedStates =>
                    /\ stateString(pre.tasks[i]) = f.items[i].state
                    /\ stateString(r.tasks[i]) = f.items[i].state
                    /\ r.tasks[i].state = pre.tasks[i].state
                    /\ ~StartedOrFinished(r, i)
              /\ f.items[i].state \notin MarkedStates =>
                    /\ f.items[i].state \in {"Active", "Queued"}
                    /\ pre.tasks[i].state = "Idle"
                    /\ r.tasks[i].state \in {"Idle", "Downloading", "Finished"}

\* A run that began with loadSession: a task restored as Paused stands
\* beside one restored as Idle, which the admission pass has started.
C26_Witness ==
    /\ \E k \in 1..Len(trace) : trace[k].ev = "domainRulesChanged"
    /\ \E t, u \in Present :
          /\ tasks[t].state = "Paused"
          /\ tasks[u].state = "Downloading"

(*************************** save and load again ****************************)
\* A manager constructed without automatic retries.
RoundTripInit ==
    /\ \E mc \in 1..MaxConcurrent :
          LET r == InitState(mc, 0, 0) IN
          /\ tasks = r.tasks
          /\ mgr = r.mgr
          /\ queues = r.queues
          /\ clock = r.clock
          /\ timers = r.timers
          /\ trace = r.trace
    /\ dt = NewDownloaderTask("Idle", TRUE, 1, TRUE, TRUE, 0)
    /\ disk = CleanDisk
    /\ remote = SmallTotal
    /\ commands = 0
    /\ stale = {}
    /\ wall = WallIdle

NextRoundTrip ==
    \/ AddDownloadAdvanced
    \/ AddDownloadAdvancedWithExtras
    \/ PauseTask
    \/ TransferFinished
    \/ RemoveQueue
    \/ CancelAll
    \/ Relaunch

RoundTripSpec == RoundTripInit /\ [][NextRoundTrip]_vars

\* The manager that loadSession leaves in a fresh process over the file
\* saveSession writes for s.
restored(s, probe) == loadSession(freshManager(s), saveSession(s), probe)

RestoredItem(it, state) ==
    [it EXCEPT !.state = state,
               !.mirrors = IF @ = << >> THEN <<TRUE>> ELSE @,
               !.bytesReceived = IF @ > 0 THEN @ ELSE it.onDisk]

ApplyTracked(x, n, halts, fired) ==
    /\ dt' = x.dt
    /\ disk' = x.disk
    /\ trace' = x.trace
    /\ commands' = commands + n
    /\ stale' = IF halts /\ x.dt # dt THEN x.dt.timers
                ELSE (stale \ fired) \cap x.dt.timers
    /\ UNCHANGED <<tasks, mgr, queues, clock, timers, remote, wall>>

\* One new task on a clean disk: without a speed limit on the small and on
\* the large file, with a speed limit on the small file.
StaleInit ==
    /\ \E segments \in {1, MaxSegments}, maxSpeed \in {0, ThrottleSpeed} :
          dt = NewDownloaderTask("Idle", TRUE, segments, TRUE, FALSE, maxSpeed)
    /\ disk = CleanDisk
    /\ remote \in IF dt.maxSpeed = 0 THEN {SmallTotal, LargeTotal} ELSE {SmallTotal}
    /\ commands = 0
    /\ stale = {}
    /\ wall = WallIdle
    /\ ManagerIdle

\* The owner starts the task, pauses, cancels or resumes it.
TrackedCall ==
    \/ ~dt.crashed /\ dt.state = "Idle" /\ ApplyTracked(start(CurX), 0, FALSE, {})
    \/ CanCall /\ dt.state = "Downloading" /\ ApplyTracked(pause(CurX), 1, TRUE, {})
    \/ CanCall /\ dt.state = "Downloading" /\ ApplyTracked(cancel(CurX), 1, TRUE, {})
    \/ CanCall /\ dt.state = "Paused" /\ ApplyTracked(resume(CurX), 1, FALSE, {})

\* A signal of a reply that is connected arrives.
TrackedReply ==
    \/ /\ ~dt.crashed /\ dt.headReply
       /\ \E acceptRanges \in BOOLEAN, crash \in BOOLEAN, e \in ElapsedChoices :
             ApplyTracked(headFinished(CurX, FALSE, remote, acceptRanges, crash, e),
                          0, FALSE, {})
    \/ /\ ~dt.crashed /\ dt.singleReply.live /\ dt.singleReply.status = 0
       /\ \E a \in Answers(dt.singleReply.existing > 0, dt.singleReply.existing,
                           remote - 1),
             crash \in BOOLEAN, e \in ElapsedChoices :
             ApplyTracked(singleMetaData(CurX, a[1], a[2], crash, e), 0, FALSE, {})
    \/ /\ ~dt.crashed /\ dt.singleReply.live /\ dt.singleReply.status \in {200, 206}
       /\ dt.singleReply.sent < dt.singleReply.expect
       /\ \E n \in DeliverChoices(dt.singleReply.expect - dt.singleReply.sent),
             e \in ElapsedChoices :
             ApplyTracked(singleReadyRead(CurX, n, e), 0, FALSE, {})
    \/ /\ ~dt.crashed
       /\ \E i \in 1..Len(dt.segs) :
             /\ dt.segs[i].reply.live /\ dt.segs[i].reply.status = 0
             /\ \E a \in Answers(TRUE, dt.segs[i].start + dt.segs[i].reply.existing,
                                 dt.segs[i].end) :
                   ApplyTracked(segmentMetaData(CurX, i, a[1], a[2]), 0, FALSE, {})
    \/ /\ ~dt.crashed
       /\ \E i \in 1..Len(dt.segs) :
             /\ dt.segs[i].reply.live /\ dt.segs[i].reply.status \in {200, 206}
             /\ dt.segs[i].reply.sent < dt.segs[i].reply.expect
             /\ \E n \in DeliverChoices(dt.segs[i].reply.expect - dt.segs[i].reply.sent),
                   e \in ElapsedChoices :
                   ApplyTracked(segmentReadyRead(CurX, i, n, e), 0, FALSE, {})

\* A pending timer fires, of the old exchange or of the present one.
TrackedTimerFired ==
    /\ ~dt.crashed
    /\ \E tm \in dt.timers, crash \in BOOLEAN, e \in ElapsedChoices :
          ApplyTracked(timerFired(CurX, tm[1], tm[2], crash, e), 0, FALSE, {tm})

NextStale ==
    \/ TrackedCall
    \/ TrackedReply
    \/ TrackedTimerFired

StaleSpec == StaleInit /\ [][NextStale]_vars

\* What the claim says an old callback leaves alone: the state of the task,
\* its byte counters and its files.
Observed(x) ==
    [state |-> x.dt.state, anyError |-> x.dt.anyError, crashed |-> x.dt.crashed,
     singleWritten |-> x.dt.singleWritten,
     downloaded |-> [i \in 1..Len(x.dt.segs) |-> x.dt.segs[i].downloaded],
     disk |-> x.disk]

\* C28: a timer of an exchange that was issued before pause() or cancel()
\* changes neither the state of the task nor its byte counters nor its
\* files when it fires, whether the task is still paused or canceled or has
\* been resumed in between.
C28_StaleTimersInert ==
    \A tm \in stale, crash \in BOOLEAN, e \in ElapsedChoices :
        Observed(timerFired(CurX, tm[1], tm[2], crash, e)) = Observed(CurX)

(******************************* the merge *********************************)
\* The failures the merge may meet.
MergeFaults ==
    {NoFault, <<"openOutput", 0>>}
    \cup {<<kind, i>> : kind \in {"openPart", "shortWrite"}, i \in 1..(MaxSegments - 1)}

\* The disks a task of the large file may find: nothing, the first part
\* complete, both parts complete.
MergeDisks ==
    {CleanDisk,
     [CleanDisk EXCEPT ![SegPath(0)] = File(Chunk)],
     [CleanDisk EXCEPT ![SegPath(0)] = File(Chunk), ![SegPath(1)] = File(Chunk + 1)]}

\* One segmented task, new or restored, with the failure its merge will meet.
MergeInit ==
    /\ \E state \in {"Idle", "Paused"}, fault \in MergeFaults :
          dt = [NewDownloaderTask(state, TRUE, MaxSegments, TRUE, FALSE, 0)
                   EXCEPT !.mergeFault = fault]
    /\ disk \in MergeDisks
    /\ remote \in {SmallTotal, LargeTotal}
    /\ commands = 0
    /\ stale = {}
    /\ wall = WallIdle
    /\ ManagerIdle

MergeSpec == MergeInit /\ [][TaskNext]_vars

Merges(tr) == {k \in 1..Len(tr) : tr[k].ev = "merge"}

\* C29: the merge is called only when every segment has all its bytes, no
\* segment has data still to come or to be written and no error is flagged;
\* a handler calls it at most once, from the state Downloading, and ends
\* with the finished signal right after the call and the task Finished, so
\* that no second merge follows without a new start().
C29_MergeWhenComplete ==
    \A k \in Merges(trace) :
        /\ Merges(trace) = {k}
        /\ trace[k].state = "Downloading"
        /\ trace[k].info = "ready"
        /\ k < Len(trace) /\ trace[k + 1].ev = "finished"
        /\ dt.state = "Finished"

\* The merge of the last handler met its I/O failure and returned false.
MergeFailed ==
    /\ dt.mergeFault # NoFault
    /\ \E k \in Merges(trace) :
          k < Len(trace) /\ trace[k + 1].ev = "finished" /\ trace[k + 1].info = "false"

\* C30: when the merge fails with an I/O error (opening the output, opening
\* a part, a short write) the task is Finished with the error flagged and
\* the part file of every segment still exists and holds the whole segment.
C30_PartsSurviveFailedMerge ==
    MergeFailed =>
        /\ dt.state = "Finished" /\ dt.anyError
        /\ \A i \in 1..Len(dt.segs) :
              /\ disk[SegPath(i - 1)].exists
              /\ disk[SegPath(i - 1)].size >= SegLen(dt.segs[i])


(************************ the order of admission ***************************)
\* Admission under the battery policy and the limits of the queues.
NextPass ==
    \/ AddDownloadAdvancedWithOptions
    \/ PauseTask
    \/ CancelAll
    \/ SetMaxConcurrent
    \/ SetQueueMaxConcurrent
    \/ SetPauseOnBattery
    \/ UpdatePowerState
    \/ TransferFinished

PassSpec == Init /\ [][NextPass]_vars

\* The state an admission pass may start from: the present one under a
\* global limit and a power state that setMaxConcurrent and
\* updatePowerState store before their pass.
PassStart(mc, onBattery) ==
    [Cur EXCEPT !.mgr.m_maxConcurrent = mc, !.mgr.m_onBattery = onBattery]

\* Task a and the later task b are Idle, in the same queue, and nothing
\* but the limits keeps them from starting.
BothEligible(s, a, b) ==
    /\ isIdle(s.tasks[a]) /\ isIdle(s.tasks[b])
    /\ TaskQueueOf(s, a) = TaskQueueOf(s, b)
    /\ TaskQueueOf(s, a) \in DOMAIN s.queues
    /\ isQueueAllowed(s.queues[TaskQueueOf(s, a)], s.clock.now)
    /\ ~(s.mgr.m_pauseOnBattery /\ s.mgr.m_onBattery)

\* The pass from s to r keeps the order of the list and touches Idle tasks only.
PassInOrder(s, r) ==
    /\ \A i, j \in 1..Len(s.mgr.m_queue) :
          (i < j /\ BothEligible(s, s.mgr.m_queue[i], s.mgr.m_queue[j]))
             => ~(/\ r.tasks[s.mgr.m_queue[j]].state # "Idle"
                  /\ r.tasks[s.mgr.m_queue[i]].state = "Idle")
    /\ \A t \in TaskIds : ~isIdle(s.tasks[t]) => r.tasks[t].state = s.tasks[t].state

\* C31: an admission pass never starts a task while an eligible Idle task
\* of the same queue that precedes it in the list stays Idle, and it changes
\* the state of no task that is not Idle (Paused, Finished, Canceled,
\* Downloading).
C31_AdmissionInOrder ==
    \A mc \in 1..MaxConcurrent, onBattery \in BOOLEAN :
        PassInOrder(PassStart(mc, onBattery), startQueued(PassStart(mc, onBattery)))

\* Two Idle tasks wait in one queue; the pass under a global limit of one
\* starts the first and leaves the second.
C31_Witness ==
    \E i, j \in 1..Len(mgr.m_queue) :
        /\ i < j
        /\ BothEligible(PassStart(1, FALSE), mgr.m_queue[i], mgr.m_queue[j])
        /\ startQueued(PassStart(1, FALSE)).tasks[mgr.m_queue[i]].state = "Downloading"
        /\ startQueued(PassStart(1, FALSE)).tasks[mgr.m_queue[j]].state = "Idle"

(*************************** the transfer mode *****************************)
MiB == 1024 * 1024

\* Content lengths on both sides of every threshold of the HEAD handler.
ModeSizes == {SmallTotal, 4 * MiB - 1, 4 * MiB, 32 * MiB - 1, 32 * MiB,
              128 * MiB - 1, 128 * MiB}

\* One new task on a clean disk.
ModeInit ==
    /\ \E segments \in 1..MaxSegments :
          dt = NewDownloaderTask("Idle", TRUE, segments, TRUE, FALSE, 0)
    /\ disk = CleanDisk
    /\ remote \in ModeSizes
    /\ commands = 0
    /\ stale = {}
    /\ wall = WallIdle
    /\ ManagerIdle

\* Starts, pauses, resumes and restarts with the answers of the server up
\* to the status lines; no body is delivered.
NextMode ==
    \/ StartFresh
    \/ PauseDownloading
    \/ ResumePaused
    \/ Restart
    \/ HeadFinished
    \/ SingleMetaData
    \/ SegmentMetaData
    \/ TimerFired

ModeSpec == ModeInit /\ [][NextMode]_vars

\* The segment count the table of the HEAD handler's description gives.
TableSegments(L, C) ==
    CASE L < 4 * MiB -> 1
      [] L >= 4 * MiB /\ L < 32 * MiB -> IF C < 2 THEN C ELSE 2
      [] L >= 32 * MiB /\ L < 128 * MiB -> IF C < 4 THEN C ELSE 4
      [] OTHER -> C

\* x runs n segments and no single stream.
RunsSegmented(x, n) == Len(x.dt.segs) = n /\ ~x.dt.singleReply.live /\ ~x.dt.singleFile

\* x runs one single-stream GET and none of its segments has a request out.
RunsSingle(x) ==
    /\ x.dt.singleReply.live
    /\ \A i \in 1..Len(x.dt.segs) : ~x.dt.segs[i].reply.live

\* The GET of the single stream carries a Range header.
SingleRanged(x) == x.dt.singleReply.existing > 0

\* The mode the task is in after the HEAD answer (L, acceptRanges) is as C32 says.
ModeAsClaimed(x, r, L, acceptRanges) ==
    IF L > 0 /\ acceptRanges /\ x.dt.segments > 1
    THEN RunsSegmented(r, TableSegments(L, x.dt.segments))
    ELSE /\ RunsSingle(r)
         /\ (L <= 0 \/ ~acceptRanges) => ~SingleRanged(r)

\* A HEAD is pending in a running task.
HeadPending == dt.state = "Downloading" /\ dt.headReply /\ ~dt.crashed

\* C32: after a successful HEAD with Content-Length L > 0 and Accept-Ranges:
\* bytes a task configured with C > 1 segments runs segmented with 1, min(C,
\* 2), min(C, 4) or C segments by the size of L; with C = 1, without a valid
\* Content-Length or without Accept-Ranges it runs single-stream, in the
\* last two cases with a GET that carries no Range header.
C32_ModeByHead ==
    /\ \A L \in ModeSizes, C \in 2..6 : SegCount(L, C) = TableSegments(L, C)
    /\ HeadPending =>
          \A L \in {0, remote}, acceptRanges \in BOOLEAN, crash \in BOOLEAN :
              ModeAsClaimed(CurX, headFinished(CurX, FALSE, L, acceptRanges, crash, 0),
                            L, acceptRanges)

(************************ resume of a single stream ************************)
\* A single-stream task is paused with k > 0 bytes in its ".part" file, no
\* final file, on a server that has offered ranges.
PausedWithTemp ==
    /\ dt.state = "Paused" /\ ~dt.crashed
    /\ dt.segments = 1 /\ dt.useRange
    /\ disk[PathPart].exists /\ disk[PathPart].size > 0
    /\ ~disk[PathMain].exists

\* The task x resumes its single stream from byte k: the GET asks for the
\* bytes from k on, the temp file keeps its k bytes, the counter stands at k.
ResumesFrom(x, k) ==
    /\ x.dt.singleReply.live /\ x.dt.singleReply.existing = k
    /\ x.dt.resumeSingle
    /\ x.disk[PathPart].exists /\ x.disk[PathPart].size = k
    /\ x.dt.singleWritten = k

\* C33: when a single-stream task paused with k > 0 bytes in <file>.part and
\* no final file is resumed and the HEAD offers ranges again, the new GET
\* carries Range: bytes=k-, the temp file is appended to and the written
\* counter starts at k.
C33_ResumeAppends ==
    PausedWithTemp =>
        \A crash \in BOOLEAN, e \in ElapsedChoices :
            ResumesFrom(headFinished(resume(CurX), FALSE, remote, TRUE, crash, e),
                        disk[PathPart].size)

(************************ the range-ignored fallback ***********************)
\* A segment GET was answered 200 for a part of the file and its deferred
\* fallback has not run yet.
FallbackPending == \E tm \in dt.timers : tm[1] = "fallback"

\* x has gone over to one single-stream transfer from byte 0: no part file
\* is left, every segment's count is 0 and no segment has a request out or
\* a file open; one GET without Range writes to a file that starts empty.
FellBack(x) ==
    /\ \A i \in SegIndexes : ~x.disk[SegPath(i)].exists
    /\ \A i \in 1..Len(x.dt.segs) :
          /\ x.dt.segs[i].downloaded = 0
          /\ ~x.dt.segs[i].reply.live /\ ~x.dt.segs[i].file /\ x.dt.segs[i].buffer = 0
    /\ x.dt.state = "Downloading"
    /\ x.dt.singleReply.live /\ x.dt.singleReply.existing = 0 /\ ~x.dt.resumeSingle
    /\ x.dt.singleWritten = 0
    /\ x.disk[x.dt.singleTempPath] = [exists |-> TRUE, size |-> 0]

\* C34: once a segment GET of a multi-segment task has been answered 200
\* for a part of the file, the task does not finish from the segmented run;
\* the fallback, when it runs, removes every part file, sets every
\* segment's count to 0 and leaves one single-stream GET from byte 0 without
\* Range, with no segment reply left to write, and so does each further
\* fallback of the same run.
C34_RangeIgnoredFallback ==
    (FallbackPending /\ ~dt.crashed) =>
        /\ dt.state # "Finished"
        /\ dt.state = "Downloading" =>
              \A tm \in dt.timers, crash \in BOOLEAN, e \in ElapsedChoices :
                  tm[1] = "fallback" => FellBack(timerFired(CurX, tm[1], tm[2], crash, e))

(************************** the rejected resume ****************************)
\* A resuming single-stream GET (Range sent) waits for its response headers.
ResumingSingle ==
    /\ dt.state = "Downloading" /\ ~dt.crashed
    /\ dt.singleReply.live /\ dt.singleReply.status = 0
    /\ dt.resumeSingle

\* The handler's result x has no finished signal and the task is still
\* Downloading.
StillDownloading(x) ==
    /\ x.dt.state = "Downloading"
    /\ \A k \in 1..Len(x.trace) : x.trace[k].ev # "finished"

\* The task x runs one single-stream GET without Range on a temp file of 0
\* bytes, its written counter at 0.
FromZero(x) ==
    /\ x.dt.singleReply.live /\ x.dt.singleReply.existing = 0
    /\ ~x.dt.resumeSingle /\ x.dt.singleWritten = 0
    /\ x.disk[x.dt.singleTempPath] = [exists |-> TRUE, size |-> 0]

\* The restart the rejected resume has scheduled runs on x.
RestartRuns(x, crash, elapsedMs) ==
    timerFired(x, "restartSingle", 0, crash, elapsedMs)

\* C35: when a resuming single-stream GET is answered with a status >= 400
\* the exchange is aborted, the task stays Downloading without a finished
\* signal, and the restart it schedules starts a GET without Range on the
\* truncated temp file with the written counter at 0; when it is answered
\* 200 instead of 206 the temp file is truncated to 0 and the same exchange
\* goes on writing from 0.
C35_ResumeRejectedRestarts ==
    ResumingSingle =>
        \A e \in ElapsedChoices :
            /\ LET r == singleMetaData(CurX, 404, 0, FALSE, e)
               IN /\ StillDownloading(r)
                  /\ ~r.dt.singleReply.live
                  /\ <<"restartSingle", 0>> \in r.dt.timers
                  /\ StillDownloading(RestartRuns(r, FALSE, e))
                  /\ FromZero(RestartRuns(r, FALSE, e))
            /\ LET d == singleMetaData(CurX, 200, remote, FALSE, e)
               IN StillDownloading(d) /\ FromZero(d)

(********************** the owner's pause and policy ***********************)
\* The tasks of the list the owner has paused.
UserPaused(s) ==
    {t \in TaskIds : s.tasks[t].state = "Paused" /\ s.tasks[t].pauseReason = "User"}

\* A policy pass over s leaves every task the owner has paused in its pause.
KeepsUserPaused(s) ==
    \A t \in UserPaused(s) : enforceQueuePolicies(s).tasks[t].state = "Paused"

\* C36: a task the owner has paused (pause reason "User") is not resumed by
\* enforceQueuePolicies, whatever policy pauses and manual resumes it went
\* through before: the pass of the power timer, on battery or on mains,
\* leaves it paused.
C36_UserPauseKept ==
    \A next \in BOOLEAN : KeepsUserPaused([Cur EXCEPT !.mgr.m_onBattery = next])

(*********************** after the bulk cancel *****************************)
\* The tasks that exist but are in the manager's list no more: cancelAll
\* clears m_queue without deleting the task objects.
Dropped ==
    {t \in Present : \A i \in 1..Len(mgr.m_queue) : mgr.m_queue[i] # t}

\* C37: once cancelAll has returned, no task that existed at the call
\* becomes Downloading again; a delayed retry armed before the call for a
\* task in Error does not restart the task after it has been dropped from
\* the manager's list.
C37_DroppedStayStopped ==
    [][\A t \in Dropped : tasks'[t].state # "Downloading"]_vars

(************************ clearing the finished rows ***********************)
\* Removal of the tasks ts from a per-task map.
DropAll(map, ts) == [x \in (DOMAIN map) \ ts |-> map[x]]

\* The tasks whose row DownloadModel::isFinishedAt reports finished.
FinishedRows(s) ==
    {s.mgr.model[i].task : i \in {j \in 1..Len(s.mgr.model) : s.mgr.model[j].finished}}

\* DownloadManager::clearCompleted: every row with the finished flag leaves
\* the list and the per-task maps, the row is removed and the task deleted;
\* then the totals, the save and startQueued.
clearCompleted(s) ==
    LET gone == FinishedRows(s) IN
    startQueued(
        [s EXCEPT !.mgr.m_queue = SelectSeq(@, LAMBDA x : x \notin gone),
                  !.mgr.m_taskLastReceived = DropAll(@, gone),
                  !.mgr.m_taskMaxSpeed = DropAll(@, gone),
                  !.mgr.m_taskCompletedAt = DropAll(@, gone),
                  !.mgr.m_taskRetryCount = DropAll(@, gone),
                  !.mgr.m_taskQueue = DropAll(@, gone),
                  !.mgr.m_taskPausedBySchedule = DropAll(@, gone),
                  !.mgr.m_taskPausedByQuota = DropAll(@, gone),
                  !.mgr.m_taskPausedByBattery = DropAll(@, gone),
                  !.mgr.model = SelectSeq(@, LAMBDA row : ~row.finished),
                  !.tasks = [t \in TaskIds |->
                                IF t \in gone THEN [NoTask EXCEPT !.state = "Deleted"]
                                ELSE @[t]]])

ClearCompleted == LET r == clearCompleted(Cur) IN WithinBounds(r) /\ Apply(r)

\* Failures, their retries, and the clearing of the finished rows.
NextClear ==
    \/ AddDownloadAdvancedWithExtras
    \/ PauseTask
    \/ ResumeTask
    \/ ClearCompleted
    \/ RetryFailed
    \/ TransferFinished
    \/ RetryTimerFired

ClearSpec == Init /\ [][NextClear]_vars

\* The tasks that exist and are Idle, Downloading or Paused.
Unfinished ==
    {t \in Present : tasks[t].state \in {"Idle", "Downloading", "Paused"}}

\* C38: clearCompleted removes only tasks that are Finished or Canceled at
\* the call: a task that once emitted finished and was restarted, and is
\* Idle, Downloading or Paused, is not removed; a model row's finished flag
\* is true only while its task is Finished or Canceled.
C38_ClearsOnlyTerminal ==
    /\ \A t \in Unfinished : t \notin FinishedRows(Cur)
    /\ \A t \in Unfinished : clearCompleted(Cur).tasks[t].state # "Deleted"

(********************* the mode and the earlier runs ***********************)
\* The transfer mode of x: the number of segments it runs, or a single
\* stream with or without a Range header.
ModeOf(x) ==
    IF RunsSingle(x) THEN <<"single", SingleRanged(x)>>
    ELSE <<"segmented", Len(x.dt.segs)>>

\* The task of x as a newly constructed task with the same configuration
\* would meet the HEAD answer: m_useRange at the default of the class.
WithoutHistory(x) == [x EXCEPT !.dt.useRange = TRUE]

\* C39: the transfer mode a start() chooses depends only on the answer to
\* that start's HEAD and on the configured segment count, not on earlier
\* runs of the task: whatever the task went through before, the HEAD answer
\* puts it in the mode a new task with the same configuration would take,
\* and a valid Content-Length with Accept-Ranges: bytes gives the ranged or
\* segmented transfer again.
C39_ModeIndependentOfHistory ==
    HeadPending =>
        \A L \in {0, remote}, acceptRanges \in BOOLEAN :
            ModeOf(headFinished(CurX, FALSE, L, acceptRanges, FALSE, 0))
                = ModeOf(headFinished(WithoutHistory(CurX), FALSE, L, acceptRanges, FALSE, 0))

(********************** the queue names of the tasks ***********************)
\* The tasks of the manager's list.
Listed == {mgr.m_queue[i] : i \in 1..Len(mgr.m_queue)}

\* C40: in every reachable state of the manager the queue name recorded for
\* every task of the task list is the name of an existing queue, after
\* addDownload with any queue name (names with blanks around them among
\* them), setTaskQueue, removeQueue, renameQueue and the restore of a
\* session.
C40_TaskQueuesExist ==
    \A t \in Listed : TaskQueueOf(Cur, t) \in DOMAIN queues
=============================================================================
